---------------------------- MODULE Spec2Model ----------------------------
(***************************************************************************)
(* A model of the slot-game repository: the payout engine, the exact       *)
(* evaluator, the stochastic simulator, the annealing reel search and the  *)
(* retry loops of the CLI and of POST /search.                             *)
(*                                                                         *)
(* Conventions.                                                            *)
(*  - Python lists are TLA+ sequences; a 0-based Python index i is the     *)
(*    1-based index i+1.                                                   *)
(*  - Money is counted in hundredths of a unit: the multipliers 0.25,      *)
(*    0.55, 1.0, 3.0, 5.0 are 25, 55, 100, 300, 500, and a bet of b units  *)
(*    is 100*b.  Floats are modelled as exact rationals [num, den] with    *)
(*    den > 0, compared by cross-multiplication; rounding error of IEEE    *)
(*    doubles is not modelled.                                             *)
(*  - A draw of a random generator is a nondeterministic choice among the  *)
(*    values of the draw's range that the ...Draws definitions allow.      *)
(***************************************************************************)
EXTENDS Integers, Sequences, FiniteSets, TLC

VARIABLES
    mode,            \* which component the behaviour exercises
    pc,              \* position of the running operation
    grid,            \* SpecPayout: the grid handed to payout()
    bet_amount,      \* SpecPayout / SpecExact: SlotMachine.bet_amount (whole units)
    payout_out,      \* SpecPayout: what payout(grid) returned
    reels,           \* SpecExact: SlotMachine.reels
    exact_out,       \* SpecExact: what ExactEvaluator.run() returned
    cfg,             \* SpecSearch: ReelSearch.cfg
    step,            \* search(): iterations of the loop executed
    current_reels,   \* search(): current_reels
    current_result,  \* search(): current_result
    current_loss,    \* search(): current_loss
    best,            \* search(): best, a Candidate [reels, result]
    best_loss,       \* search(): best_loss
    temperature,     \* search(): temperature
    proposal,        \* search(): proposal of the last step
    res,             \* search(): res of the last step
    loss,            \* search(): loss of the last step
    accept,          \* search(): accept of the last step
    returned,        \* search(): the Candidate returned
    raised,          \* search(): the exception that ended it, "" if none
    evals,           \* number of _evaluate calls made
    trail,           \* the initial candidate and every accepted proposal, in order
    sampled,         \* the loss of every sample evaluated in the run
    req,             \* main() / post_search(): the arguments [steps, eval_spins, seed]
    attempts,        \* retry loop: attempts
    steps,           \* retry loop: steps
    cand,            \* retry loop: the reels of the latest candidate
    validation,      \* retry loop: the exact metrics of the latest validation
    runs,            \* the SearchConfig and outcome of every search run, in order
    response,        \* what is written to the file or returned, with its status
    symbol_lists,    \* the symbol lists handed to Reel(...), in order
    spin_stops,      \* the stops handed to spin_grid()
    ctor_raised,     \* the exception a constructor raised, "" if none
    heap,            \* the symbol lists allocated, by address
    cur_refs,        \* the addresses of the lists of current_reels
    best_refs,       \* the addresses of the lists of best.reels
    prop_refs,       \* the addresses of the lists of the last proposal
    arg_refs,        \* the addresses of the lists last handed to _mutate
    sims,            \* the two Simulator instances: generator, stops drawn, sums
    sim_spins,       \* the spins each instance is run for
    sim_seed,        \* the seed both instances are created with
    rng,             \* the state of the generator of the ReelSearch instance
    search_seed,     \* cfg.seed of the two ReelSearch instances
    run_no,          \* which of the two instances is running
    first_run,       \* what the first instance ended with
    detail_out,      \* what evaluate_patterns(grid) returned
    sim_drawn,       \* Simulator.run(): the stop triples drawn so far
    sim_acc,         \* Simulator.run(): wins and total_return so far
    sim_out,         \* Simulator.run(): the SimulationResult
    exact_total,     \* ExactEvaluator.run(): total_return as the float it is
    lengths          \* _random_candidate(): the three lengths drawn

evalVars == <<grid, bet_amount, payout_out, reels, exact_out>>

searchVars ==
    <<cfg, step, current_reels, current_result, current_loss, best, best_loss,
      temperature, proposal, res, loss, accept, returned, raised, evals, trail,
      sampled>>

retryVars == <<req, attempts, steps, cand, validation, runs, response>>

machineVars == <<symbol_lists, spin_stops, ctor_raised>>

aliasVars == <<heap, cur_refs, best_refs, prop_refs, arg_refs>>

simVars == <<sims, sim_spins, sim_seed>>

twiceVars == <<rng, search_seed, run_no, first_run>>

detailVars == <<detail_out>>

aggVars == <<sim_drawn, sim_acc, sim_out, exact_total>>

shapeVars == <<lengths>>

otherVars == <<aliasVars, simVars, twiceVars, detailVars, aggVars, shapeVars>>

vars == <<mode, pc, evalVars, searchVars, retryVars, machineVars, otherVars>>

None == [none |-> TRUE]

Range(s) == {s[i] : i \in DOMAIN s}

(***************************************************************************)
(* Rationals standing for the program's floats.                            *)
(***************************************************************************)
RECURSIVE Gcd(_, _)
Gcd(a, b) == IF b = 0 THEN a ELSE Gcd(b, a % b)

\* n/d in lowest terms, d > 0.
Rat(n, d) ==
    LET g == Gcd(IF n < 0 THEN 0 - n ELSE n, d)
    IN  IF g = 0 THEN [num |-> 0, den |-> 1]
        ELSE [num |-> n \div g, den |-> d \div g]

RatZero == Rat(0, 1)

RatLess(a, b) == a.num * b.den < b.num * a.den

RatLeq(a, b) == a.num * b.den <= b.num * a.den

RatAdd(a, b) == Rat(a.num * b.den + b.num * a.den, a.den * b.den)

RatSub(a, b) == Rat(a.num * b.den - b.num * a.den, a.den * b.den)

RatMul(a, b) == Rat(a.num * b.num, a.den * b.den)

RatAbs(a) == IF a.num < 0 THEN Rat(0 - a.num, a.den) ELSE a

RatMax(a, b) == IF RatLess(a, b) THEN b ELSE a

(***************************************************************************)
(* symbols.py: the symbol table.                                           *)
(***************************************************************************)
SYMBOL_KEYS == {0, 1, 2, 3, 4}

\* SymbolSet.__init__: key -> multiplier, in hundredths.
Multiplier100 == (0 :> 25) @@ (1 :> 55) @@ (2 :> 100) @@ (3 :> 300) @@ (4 :> 500)

\* SymbolSet.get: self._symbols[key] raises KeyError for a key not in the table.
SymbolKnown(key) == key \in DOMAIN Multiplier100

(***************************************************************************)
(* patterns.py: the five winning patterns, coordinates (row, col) 0-based. *)
(***************************************************************************)
\* Mutant of winning_patterns: the top row stands where the top-left block
\* is, and the full block weighs 1.
winning_patterns_top_row ==
    << [name |-> "top_row",
        coords |-> << <<0, 0>>, <<0, 1>>, <<0, 2>> >>, weight |-> 1],
       [name |-> "top_right_2x2",
        coords |-> << <<0, 1>>, <<0, 2>>, <<1, 1>>, <<1, 2>> >>, weight |-> 1],
       [name |-> "bottom_left_2x2",
        coords |-> << <<1, 0>>, <<1, 1>>, <<2, 0>>, <<2, 1>> >>, weight |-> 1],
       [name |-> "bottom_right_2x2",
        coords |-> << <<1, 1>>, <<1, 2>>, <<2, 1>>, <<2, 2>> >>, weight |-> 1],
       [name |-> "full_3x3",
        coords |-> << <<0, 0>>, <<0, 1>>, <<0, 2>>,
                      <<1, 0>>, <<1, 1>>, <<1, 2>>,
                      <<2, 0>>, <<2, 1>>, <<2, 2>> >>, weight |-> 1] >>

\* winning_patterns(): four 2x2 blocks of weight 1 and the full block of
\* weight 5.
winning_patterns ==
    << [name |-> "top_left_2x2",
        coords |-> << <<0, 0>>, <<0, 1>>, <<1, 0>>, <<1, 1>> >>, weight |-> 1],
       [name |-> "top_right_2x2",
        coords |-> << <<0, 1>>, <<0, 2>>, <<1, 1>>, <<1, 2>> >>, weight |-> 1],
       [name |-> "bottom_left_2x2",
        coords |-> << <<1, 0>>, <<1, 1>>, <<2, 0>>, <<2, 1>> >>, weight |-> 1],
       [name |-> "bottom_right_2x2",
        coords |-> << <<1, 1>>, <<1, 2>>, <<2, 1>>, <<2, 2>> >>, weight |-> 1],
       [name |-> "full_3x3",
        coords |-> << <<0, 0>>, <<0, 1>>, <<0, 2>>,
                      <<1, 0>>, <<1, 1>>, <<1, 2>>,
                      <<2, 0>>, <<2, 1>>, <<2, 2>> >>, weight |-> 5] >>

(***************************************************************************)
(* reel.py and slot_machine.py: windows, grids and the payout.             *)
(***************************************************************************)
\* grid[r][c] of the code.
Cell(g, r, c) == g[r + 1][c + 1]

\* Reel.window(start): symbols[(start + offset) % n] for offset 0, 1, 2.
Window(symbols, start) ==
    [offset \in 1..3 |-> symbols[((start + offset - 1) % Len(symbols)) + 1]]

\* Mutant of SpinGrid: the columns are returned without the transposition.
SpinGridColumns(rs, stops) ==
    LET cols == [c \in 1..3 |-> Window(rs[c], stops[c])]
    IN  [r \in 1..3 |-> [c \in 1..3 |-> cols[r][c]]]

\* SlotMachine.spin_grid(stops): the columns transposed into rows.
SpinGrid(rs, stops) ==
    LET cols == [c \in 1..3 |-> Window(rs[c], stops[c])]
    IN  [r \in 1..3 |-> [c \in 1..3 |-> cols[c][r]]]

\* Mutant of PatternMatches: "any" for "all" over the cells after the first.
PatternMatchesAny(g, p) ==
    \E i \in 2..Len(p.coords) :
        Cell(g, p.coords[i][1], p.coords[i][2])
            = Cell(g, p.coords[1][1], p.coords[1][2])

\* The test of payout(): every cell of the pattern holds the symbol of its
\* first coordinate.
PatternMatches(g, p) ==
    LET symbol == Cell(g, p.coords[1][1], p.coords[1][2])
    IN  \A i \in DOMAIN p.coords : Cell(g, p.coords[i][1], p.coords[i][2]) = symbol

\* Mutant of Contribution: the pattern's weight is left out.
ContributionUnweighted(bet, symbol, p) == bet * Multiplier100[symbol]

\* One pattern's contribution: bet_amount * multiplier * weight (hundredths).
Contribution(bet, symbol, p) == bet * Multiplier100[symbol] * p.weight

\* The loop of payout() from pattern idx on, total being the sum so far.
\* The result is [err, val]: err is the KeyError of SymbolSet.get.
RECURSIVE PayoutFrom(_, _, _, _, _)
PayoutFrom(patterns, bet, g, idx, total) ==
    IF idx > Len(patterns)
    THEN [err |-> FALSE, val |-> total]
    ELSE LET p == patterns[idx]
             symbol == Cell(g, p.coords[1][1], p.coords[1][2])
         IN  IF PatternMatches(g, p)
             THEN IF SymbolKnown(symbol)
                  THEN PayoutFrom(patterns, bet, g, idx + 1,
                                  total + Contribution(bet, symbol, p))
                  ELSE [err |-> TRUE, val |-> 0]
             ELSE PayoutFrom(patterns, bet, g, idx + 1, total)

\* Mutant of Payout: the payout is capped at the first matching pattern.
PayoutFirstMatchOnly(bet, g) ==
    LET hits == {i \in DOMAIN winning_patterns : PatternMatches(g, winning_patterns[i])}
    IN  IF hits = {}
        THEN [err |-> FALSE, val |-> 0]
        ELSE LET i == CHOOSE h \in hits : \A k \in hits : h <= k
                 p == winning_patterns[i]
                 symbol == Cell(g, p.coords[1][1], p.coords[1][2])
             IN  IF SymbolKnown(symbol)
                 THEN [err |-> FALSE, val |-> Contribution(bet, symbol, p)]
                 ELSE [err |-> TRUE, val |-> 0]

\* SlotMachine.payout(grid).
Payout(bet, g) == PayoutFrom(winning_patterns, bet, g, 1, 0)

\* Mutant of MatchDetail: the payout of a match leaves the weight out.
MatchDetailUnweighted(bet, symbol, p) ==
    [pattern |-> p.name, coords |-> p.coords, symbol |-> symbol,
     weight |-> p.weight, multiplier |-> Multiplier100[symbol],
     payout |-> bet * Multiplier100[symbol]]

\* The record evaluate_patterns() appends for a matching pattern; payout is
\* self.bet_amount * mult * p.weight.
MatchDetail(bet, symbol, p) ==
    [pattern |-> p.name, coords |-> p.coords, symbol |-> symbol,
     weight |-> p.weight, multiplier |-> Multiplier100[symbol],
     payout |-> bet * Multiplier100[symbol] * p.weight]

\* The loop of evaluate_patterns() from pattern idx on: total += payout and
\* matches.append(...) for every matching pattern.  err is the KeyError of
\* SymbolSet.get.
RECURSIVE EvaluatePatternsFrom(_, _, _, _, _, _)
EvaluatePatternsFrom(patterns, bet, g, idx, total, matches) ==
    IF idx > Len(patterns)
    THEN [err |-> FALSE, payout |-> total, matches |-> matches]
    ELSE LET p == patterns[idx]
             symbol == Cell(g, p.coords[1][1], p.coords[1][2])
         IN  IF PatternMatches(g, p)
             THEN IF SymbolKnown(symbol)
                  THEN LET match == MatchDetail(bet, symbol, p)
                       IN  EvaluatePatternsFrom(patterns, bet, g, idx + 1,
                                                total + match.payout,
                                                Append(matches, match))
                  ELSE [err |-> TRUE, payout |-> 0, matches |-> <<>>]
             ELSE EvaluatePatternsFrom(patterns, bet, g, idx + 1, total, matches)

\* SlotMachine.evaluate_patterns(grid): {"payout": total, "matches": matches}.
EvaluatePatterns(bet, g) == EvaluatePatternsFrom(winning_patterns, bet, g, 1, 0, <<>>)

(***************************************************************************)
(* The floats of the sums.  total and total_return are Python floats       *)
(* (binary64): a value is [exp, bits], bits being the 53 bits of the       *)
(* significand, the first one set and worth 2^exp; zero has no bits.  An   *)
(* operation is the exact result rounded once, to nearest, ties to even.   *)
(* Only non-negative values of moderate size occur.                        *)
(***************************************************************************)
DZero == [exp |-> 0, bits |-> <<>>]

Zeros(n) == [i \in 1..n |-> 0]

\* The bits of a sequence of hexadecimal digits.
RECURSIVE HexBits(_)
HexBits(digits) ==
    IF digits = <<>> THEN <<>>
    ELSE LET d == Head(digits)
         IN  <<d \div 8, (d \div 4) % 2, (d \div 2) % 2, d % 2>> \o HexBits(Tail(digits))

\* The bits without the zeros they start with, exp following.
RECURSIVE Normal(_)
Normal(x) ==
    IF x.bits = <<>> THEN DZero
    ELSE IF Head(x.bits) = 1 THEN x
    ELSE Normal([exp |-> x.exp - 1, bits |-> Tail(x.bits)])

\* a + b of two bit strings of one length, from position i down, with the
\* carry in; the result is one bit longer.
RECURSIVE AddBits(_, _, _, _, _)
AddBits(a, b, i, carry, out) ==
    IF i = 0 THEN <<carry>> \o out
    ELSE LET t == a[i] + b[i] + carry
             longer == <<t % 2>> \o out
         IN  IF t >= 0 /\ Len(longer) > 0
             THEN AddBits(a, b, i - 1, t \div 2, longer)
             ELSE <<>>

\* The exact sum of two values, as many bits as it takes.
ExactSum(a, b) ==
    IF a.bits = <<>> THEN b
    ELSE IF b.bits = <<>> THEN a
    ELSE LET e == IF a.exp >= b.exp THEN a.exp ELSE b.exp
             la == (e - a.exp) + Len(a.bits)
             lb == (e - b.exp) + Len(b.bits)
             n == IF la >= lb THEN la ELSE lb
             xa == Zeros(e - a.exp) \o a.bits \o Zeros(n - la)
             xb == Zeros(e - b.exp) \o b.bits \o Zeros(n - lb)
         IN  Normal([exp |-> e + 1, bits |-> AddBits(xa, xb, n, 0, <<>>)])

\* The exact product of a value and an integer n >= 1.
RECURSIVE ExactTimes(_, _)
ExactTimes(a, n) ==
    IF n <= 1 THEN a
    ELSE LET h == ExactTimes(a, n \div 2)
             twice == IF h.bits = <<>> THEN h ELSE [h EXCEPT !.exp = @ + 1]
         IN  IF n % 2 = 1 THEN ExactSum(twice, a) ELSE twice

\* An exact value rounded to 53 bits, to nearest, ties to even.
DRound(x) ==
    IF x.bits = <<>> THEN DZero
    ELSE IF Len(x.bits) <= 53
    THEN [exp |-> x.exp, bits |-> x.bits \o Zeros(53 - Len(x.bits))]
    ELSE LET kept == SubSeq(x.bits, 1, 53)
             guard == x.bits[54]
             sticky == \E i \in 55..Len(x.bits) : x.bits[i] = 1
             up == guard = 1 /\ (sticky \/ kept[53] = 1)
             raised_bits == AddBits(kept, Zeros(52) \o <<1>>, 53, 0, <<>>)
         IN  IF ~up THEN [exp |-> x.exp, bits |-> kept]
             ELSE IF raised_bits[1] = 1
             THEN [exp |-> x.exp + 1, bits |-> SubSeq(raised_bits, 1, 53)]
             ELSE [exp |-> x.exp, bits |-> SubSeq(raised_bits, 2, 54)]

\* a + b of two floats.
DAdd(a, b) == DRound(ExactSum(a, b))

\* a * n of a float and an integer-valued operand n >= 0.
DTimes(a, n) == IF n = 0 THEN DZero ELSE DRound(ExactTimes(a, n))

\* The float of an integer n >= 0.
RECURSIVE IntBits(_)
IntBits(n) == IF n = 0 THEN <<>> ELSE IntBits(n \div 2) \o <<n % 2>>

DInt(n) == IF n = 0 THEN DZero
           ELSE DRound([exp |-> Len(IntBits(n)) - 1, bits |-> IntBits(n)])

\* SymbolSet.__init__: the multipliers 0.25, 0.55, 1.0, 3.0, 5.0 as floats;
\* 0.55 is 0x1.199999999999ap-1.
MultiplierDouble ==
    (0 :> DRound([exp |-> -2, bits |-> <<1>>]))
    @@ (1 :> [exp |-> -1,
              bits |-> <<1>> \o HexBits(<<1, 9, 9, 9, 9, 9, 9, 9, 9, 9, 9, 9, 10>>)])
    @@ (2 :> DInt(1)) @@ (3 :> DInt(3)) @@ (4 :> DInt(5))

\* self.bet_amount * self.symbols.get(symbol).multiplier * p.weight, the
\* bet being a whole number.
ContributionDouble(bet, symbol, p) ==
    DTimes(DTimes(MultiplierDouble[symbol], bet), p.weight)

\* The loop of payout() in floats: total += contribution, for grids over
\* the symbol table.
RECURSIVE PayoutDoubleFrom(_, _, _, _, _)
PayoutDoubleFrom(patterns, bet, g, idx, total) ==
    IF idx > Len(patterns) THEN total
    ELSE LET p == patterns[idx]
             symbol == Cell(g, p.coords[1][1], p.coords[1][2])
         IN  PayoutDoubleFrom(patterns, bet, g, idx + 1,
                 IF PatternMatches(g, p)
                 THEN DAdd(total, ContributionDouble(bet, symbol, p))
                 ELSE total)

PayoutDouble(bet, g) == PayoutDoubleFrom(winning_patterns, bet, g, 1, DZero)

(***************************************************************************)
(* exact.py: ExactEvaluator.run().                                         *)
(***************************************************************************)
\* Mutant of ExactVisit: a win is counted for payout >= 0.
ExactVisitCountsZero(rs, bet, acc, i, j, k) ==
    LET stops == <<i, j, k>>
        pay == Payout(bet, SpinGrid(rs, stops))
    IN  IF acc.err \/ pay.err
        THEN [acc EXCEPT !.err = TRUE]
        ELSE [total_return |-> acc.total_return + pay.val,
              wins |-> IF pay.val >= 0 THEN acc.wins + 1 ELSE acc.wins,
              err |-> FALSE,
              visited |-> Append(acc.visited, stops)]

\* The body of the innermost loop for the stop triple (i, j, k): acc holds
\* total_return, wins, the KeyError flag and the triples scored so far.
ExactVisit(rs, bet, acc, i, j, k) ==
    LET stops == <<i, j, k>>
        pay == Payout(bet, SpinGrid(rs, stops))
    IN  IF acc.err \/ pay.err
        THEN [acc EXCEPT !.err = TRUE]
        ELSE [total_return |-> acc.total_return + pay.val,
              wins |-> IF pay.val > 0 THEN acc.wins + 1 ELSE acc.wins,
              err |-> FALSE,
              visited |-> Append(acc.visited, stops)]

\* for k in range(lengths[2]), from k on; a KeyError ends the loops.
RECURSIVE ExactLoopK(_, _, _, _, _, _)
ExactLoopK(rs, bet, acc, i, j, k) ==
    IF acc.err \/ k >= Len(rs[3]) THEN acc
    ELSE ExactLoopK(rs, bet, ExactVisit(rs, bet, acc, i, j, k), i, j, k + 1)

\* for j in range(lengths[1]), from j on.
RECURSIVE ExactLoopJ(_, _, _, _, _)
ExactLoopJ(rs, bet, acc, i, j) ==
    IF acc.err \/ j >= Len(rs[2]) THEN acc
    ELSE ExactLoopJ(rs, bet, ExactLoopK(rs, bet, acc, i, j, 0), i, j + 1)

\* for i in range(lengths[0]), from i on.
RECURSIVE ExactLoopI(_, _, _, _)
ExactLoopI(rs, bet, acc, i) ==
    IF acc.err \/ i >= Len(rs[1]) THEN acc
    ELSE ExactLoopI(rs, bet, ExactLoopJ(rs, bet, acc, i, 0), i + 1)

\* ExactEvaluator.run(): the metrics, with the triples scored (in order).
ExactRun(rs, bet) ==
    LET total_combos == Len(rs[1]) * Len(rs[2]) * Len(rs[3])
        acc == ExactLoopI(rs, bet,
                          [total_return |-> 0, wins |-> 0, err |-> FALSE,
                           visited |-> <<>>], 0)
        total_bet == total_combos * bet * 100
    IN  [err |-> acc.err,
         spins |-> total_combos,
         total_bet |-> total_bet,
         total_return |-> acc.total_return,
         wins |-> acc.wins,
         win_rate |-> IF total_combos > 0 THEN Rat(acc.wins, total_combos)
                      ELSE RatZero,
         rtp |-> IF total_bet > 0 THEN Rat(acc.total_return, total_bet)
                 ELSE RatZero,
         visited |-> acc.visited]

(***************************************************************************)
(* The random generators.  A draw yields any value of its range.  Where    *)
(* the whole search is explored the model follows, for the draws of        *)
(* _mutate, the least value of each range, and for the stops of a spin     *)
(* the least and the middle value of the range; the range itself is always *)
(* the code's, so an empty range (a ValueError) shows whatever values are  *)
(* followed.                                                               *)
(***************************************************************************)
Least(S) == {v \in S : \A w \in S : v <= w}

Middle(S) == {v \in S : Cardinality({w \in S : w < v}) = (Cardinality(S) - 1) \div 2}

Followed(S) == IF mode \in {"search", "alias", "twice"} THEN Least(S) ELSE S

\* rng.randint(lo, hi): lo..hi, both ends included.
RandInt(lo, hi) == Followed(lo..hi)

\* rng.randrange(lo, hi): lo..hi-1; empty (a ValueError) when hi <= lo.
RandRange(lo, hi) == Followed(lo..(hi - 1))

\* rng.sample(range(n), 2): two distinct positions, in either order.
SampleTwo(n) ==
    LET pairs == {p \in (0..(n - 1)) \X (0..(n - 1)) : p[1] # p[2]}
    IN  IF mode \in {"search", "alias", "twice"}
        THEN {p \in pairs : p = <<0, 1>>} ELSE pairs

(***************************************************************************)
(* simulator.py: Simulator.run(spins).                                     *)
(***************************************************************************)
\* One iteration of the loop of run() for the drawn stops.
SimVisit(rs, bet, acc, stops) ==
    LET pay == Payout(bet, SpinGrid(rs, stops))
    IN  IF acc.err \/ pay.err
        THEN [acc EXCEPT !.err = TRUE]
        ELSE [total_return |-> acc.total_return + pay.val,
              wins |-> IF pay.val > 0 THEN acc.wins + 1 ELSE acc.wins,
              err |-> FALSE]

\* self.random.randrange(n)
FollowedStops(n) == Least(0..(n - 1)) \cup Middle(0..(n - 1))

\* tuple(self.random.randrange(reel.length) for reel in reels)
StopDraws(rs) ==
    FollowedStops(Len(rs[1])) \X FollowedStops(Len(rs[2])) \X FollowedStops(Len(rs[3]))

\* The accumulators the loop of run() can end with after n iterations.
RECURSIVE SimLoop(_, _, _)
SimLoop(rs, bet, n) ==
    IF n <= 0
    THEN {[total_return |-> 0, wins |-> 0, err |-> FALSE]}
    ELSE {SimVisit(rs, bet, acc, stops) :
            acc \in SimLoop(rs, bet, n - 1), stops \in StopDraws(rs)}

\* The SimulationResult built from the accumulators; raised names the
\* exception that ends run() instead ("" when it returns).
SimResult(bet, spins, acc) ==
    LET total_bet == spins * bet * 100
    IN  IF acc.err
        THEN [raised |-> "KeyError", spins |-> spins, total_bet |-> 0,
              total_return |-> 0, win_rate |-> RatZero, rtp |-> RatZero]
        ELSE IF spins = 0
        THEN \* win_rate = wins / spins
             [raised |-> "ZeroDivisionError", spins |-> spins, total_bet |-> 0,
              total_return |-> 0, win_rate |-> RatZero, rtp |-> RatZero]
        ELSE [raised |-> "",
              spins |-> spins,
              total_bet |-> total_bet,
              total_return |-> acc.total_return,
              win_rate |-> Rat(acc.wins, spins),
              rtp |-> IF total_bet > 0 THEN Rat(acc.total_return, total_bet)
                      ELSE RatZero]

\* Simulator(machine, seed).run(spins): every result a seed can give.
SimRun(rs, bet, spins) == {SimResult(bet, spins, acc) : acc \in SimLoop(rs, bet, spins)}

(***************************************************************************)
(* search.py: ReelSearch.                                                  *)
(***************************************************************************)
\* rng.choices(SYMBOL_KEYS, weights=[5, 5, 4, 2, 1]): every key has a
\* positive weight; the model follows the keys of SymbolDraws.
SymbolDraws == {0, 1}

\* The run lengths of _random_reel the model follows, among randint(2, 4).
RunDraws == {v \in 2..4 : v = 4}

\* The reel lengths of _random_candidate the model follows, among
\* randint(8, 14).
LengthDraws == {v \in 8..14 : v = 8}

\* [sym] * run
Repeat(sym, run) == [i \in 1..run |-> sym]

\* _random_reel(length), from the list out on: every reel the draws can give.
RECURSIVE RandomReelFrom(_, _)
RandomReelFrom(out, length) ==
    IF Len(out) >= length
    THEN {SubSeq(out, 1, length)}
    ELSE UNION {RandomReelFrom(out \o Repeat(sym, run), length) :
                  sym \in SymbolDraws, run \in RunDraws}

random_reel(length) == RandomReelFrom(<<>>, length)

\* _random_candidate(): three lengths, then three reels.
random_candidate ==
    UNION {random_reel(l[1]) \X random_reel(l[2]) \X random_reel(l[3]) :
           l \in LengthDraws \X LengthDraws \X LengthDraws}

\* rlist with reel i (0-based) replaced.
WithReel(rlist, i, symbols) == [rlist EXCEPT ![i + 1] = symbols]

\* A result of _mutate: the new reels, or the exception raised.
Mutated(rlist) == [raised |-> "", reels |-> rlist]

MutateRaised(exc) == [raised |-> exc, reels |-> <<>>]

\* choice < 0.25: swap two positions on a random reel.
MutateSwap(rlist) ==
    UNION {LET n == Len(rlist[i + 1])
           IN  IF n > 1
               THEN \* a, b = rng.sample(range(n), 2): two distinct positions
                    {Mutated(WithReel(rlist, i,
                        [rlist[i + 1] EXCEPT ![ab[1] + 1] = rlist[i + 1][ab[2] + 1],
                                             ![ab[2] + 1] = rlist[i + 1][ab[1] + 1]])) :
                       ab \in SampleTwo(n)}
               ELSE {Mutated(rlist)} :
           i \in RandRange(0, 3)}

\* choice < 0.5: tweak a random position.
MutateTweak(rlist) ==
    UNION {LET n == Len(rlist[i + 1])
           IN  IF RandRange(0, n) = {}
               THEN {MutateRaised("ValueError")}
               ELSE {Mutated(WithReel(rlist, i, [rlist[i + 1] EXCEPT ![j + 1] = sym])) :
                       j \in RandRange(0, n), sym \in SymbolDraws} :
           i \in RandRange(0, 3)}

\* choice < 0.7: rotate a reel by k in randrange(1, n).
MutateRotate(rlist) ==
    UNION {LET n == Len(rlist[i + 1])
           IN  IF RandRange(1, n) = {}
               THEN {MutateRaised("ValueError")}
               ELSE {Mutated(WithReel(rlist, i,
                        SubSeq(rlist[i + 1], k + 1, n) \o SubSeq(rlist[i + 1], 1, k))) :
                       k \in RandRange(1, n)} :
           i \in RandRange(0, 3)}

\* for off in range(1, run): rlist[i][(start + off) % n] = val, from off on.
RECURSIVE StrengthenFrom(_, _, _, _, _)
StrengthenFrom(symbols, start, run, val, off) ==
    IF off >= run THEN symbols
    ELSE StrengthenFrom([symbols EXCEPT ![((start + off) % Len(symbols)) + 1] = val],
                        start, run, val, off + 1)

\* choice < 0.85: strengthen a local block.
MutateStrengthen(rlist) ==
    UNION {LET n == Len(rlist[i + 1])
           IN  IF RandRange(0, n) = {}
               THEN {MutateRaised("ValueError")}
               ELSE {Mutated(WithReel(rlist, i,
                        StrengthenFrom(rlist[i + 1], start, run,
                                       rlist[i + 1][start + 1], 1))) :
                       start \in RandRange(0, n), run \in RandInt(2, 4)} :
           i \in RandRange(0, 3)}

\* Mutant of CopySlice: the slice is inserted at d0, nothing is replaced.
CopySliceInserted(rlist, src, dst, sl, s0, d0) ==
    LET from == rlist[src + 1]
        to == rlist[dst + 1]
    IN  WithReel(rlist, dst,
                 SubSeq(to, 1, d0) \o SubSeq(from, s0 + 1, s0 + sl)
                                   \o SubSeq(to, d0 + 1, Len(to)))

\* rlist[dst][d0 : d0 + sl] = rlist[src][s0 : s0 + sl]
CopySlice(rlist, src, dst, sl, s0, d0) ==
    LET from == rlist[src + 1]
        to == rlist[dst + 1]
    IN  WithReel(rlist, dst,
                 SubSeq(to, 1, d0) \o SubSeq(from, s0 + 1, s0 + sl)
                                   \o SubSeq(to, d0 + sl + 1, Len(to)))

\* else: copy a short slice within/between reels.
MutateCopy(rlist) ==
    UNION {LET nsrc == Len(rlist[sd[1] + 1])
               ndst == Len(rlist[sd[2] + 1])
               Min6 == IF nsrc < 6 THEN nsrc ELSE 6
           IN  IF nsrc > 1 /\ ndst > 1
               THEN UNION {IF RandRange(0, nsrc - sl + 1) = {}
                              \/ RandRange(0, ndst - sl + 1) = {}
                           THEN {MutateRaised("ValueError")}
                           ELSE {Mutated(CopySlice(rlist, sd[1], sd[2], sl, s0, d0)) :
                                   s0 \in RandRange(0, nsrc - sl + 1),
                                   d0 \in RandRange(0, ndst - sl + 1)} :
                           sl \in RandInt(2, Min6)}
               ELSE {Mutated(rlist)} :
           sd \in RandRange(0, 3) \X RandRange(0, 3)}

\* _mutate(reels): every result the draws can give.  Reel(s) is built for
\* each new list, and raises for an empty one.
mutate(rs) ==
    LET all == MutateSwap(rs) \cup MutateTweak(rs) \cup MutateRotate(rs)
                 \cup MutateStrengthen(rs) \cup MutateCopy(rs)
    IN  {IF m.raised = "" /\ \E c \in 1..3 : Len(m.reels[c]) = 0
         THEN MutateRaised("ValueError") ELSE m : m \in all}

\* _loss(result)
loss_of(c, result) ==
    LET rtp_err == RatAbs(RatSub(result.rtp, c.target_rtp))
        win_deficit == RatMax(RatZero, RatSub(c.min_win_rate, result.win_rate))
        excess == RatMax(RatZero, RatSub(result.win_rate, c.min_win_rate))
    IN  RatAdd(RatAdd(rtp_err, RatMul(Rat(2, 1), win_deficit)),
               RatMul(Rat(1, 10), excess))

\* Mutant of evaluate: the sample runs max_steps spins.
evaluate_wrong_count(c, rs) == SimRun(rs, 1, c.max_steps)

\* _evaluate(reels): a simulator with a fresh seed run for spins_per_eval.
evaluate(c, rs) == SimRun(rs, 1, c.spins_per_eval)

\* Mutant of accept_outcomes: the Metropolis draw decides for an improving
\* proposal too.
accept_outcomes_always_drawn(cur_loss, new_loss, temp) == {TRUE, FALSE}

\* The acceptance rule of one step: the values accept can end with.
\* prob = exp((current_loss - loss) / max(1e-6, temperature)), the divisor
\* being positive: prob is 1.0 when the losses are equal, and then
\* rng.random() < prob holds for every draw; it is below 1.0 otherwise.
accept_outcomes(cur_loss, new_loss, temp) ==
    IF RatLess(new_loss, cur_loss) THEN {TRUE}
    ELSE IF RatLess(cur_loss, new_loss) THEN {TRUE, FALSE}
    ELSE {TRUE}

\* Mutant of early_exit: win_rate > min_win_rate for win_rate >= min_win_rate.
early_exit_strict_win(c, result) ==
    /\ result.rtp.num # 0
    /\ RatLess(RatAbs(RatSub(result.rtp, c.target_rtp)), Rat(1, 100))
    /\ RatLess(c.min_win_rate, result.win_rate)

\* The early-exit test at the end of a step:
\* res.rtp and abs(res.rtp - target_rtp) < 0.01 and res.win_rate >= min_win_rate
early_exit(c, result) ==
    /\ result.rtp.num # 0
    /\ RatLess(RatAbs(RatSub(result.rtp, c.target_rtp)), Rat(1, 100))
    /\ RatLeq(c.min_win_rate, result.win_rate)

\* Mutant of cool_down: the factor is 0.99.
cool_down_slower(temp) == RatMul(temp, Rat(99, 100))

\* temperature *= 0.98
cool_down(temp) == RatMul(temp, Rat(98, 100))

\* Mutant of improves_best: best is never replaced in the accept block.
improves_best_never(a, l, bl) == FALSE

\* Mutant of improves_best: "<=" for "<".
improves_best_on_tie(a, l, bl) == a /\ RatLeq(l, bl)

\* if accept: ... if loss < best_loss: the step replaces best.
improves_best(a, l, bl) == a /\ RatLess(l, bl)

\* Mutant of loop_continues: range(max_steps + 1).
loop_continues_once_more(c, st) == st <= c.max_steps

\* for step in range(max_steps): the loop runs another iteration.
loop_continues(c, st) == st < c.max_steps

(***************************************************************************)
(* Bounds and input sets.                                                  *)
(***************************************************************************)
\* SpecPayout: a grid holds at most this many distinct cell values.
MaxGridSymbols == 2

\* SpecExact: the reels handed to the evaluator have 1..MaxReelLen symbols
\* and hold, the three together, at most MaxReelSymbols distinct symbols.
MaxReelLen == 3

MaxReelSymbols == 2

\* A key outside the symbol table.
UnknownKeys == {5}

CellValues == SYMBOL_KEYS \cup UnknownKeys

Grids ==
    UNION {[1..3 -> [1..3 -> S]] :
           S \in {T \in SUBSET CellValues : Cardinality(T) <= MaxGridSymbols}}

BetAmounts == {-1, 0, 1, 2}

ExactBets == {1, 2}

SmallReels(T) == UNION {[1..n -> T] : n \in 1..MaxReelLen}

ReelTriples ==
    UNION {SmallReels(T) \X SmallReels(T) \X SmallReels(T) :
           T \in {U \in SUBSET SYMBOL_KEYS : Cardinality(U) <= MaxReelSymbols}}

\* The variables of the components a behaviour does not exercise.
AliasIdle ==
    /\ heap = <<>>
    /\ cur_refs = None
    /\ best_refs = None
    /\ prop_refs = None
    /\ arg_refs = None

SimIdle ==
    /\ sims = <<>>
    /\ sim_spins = 0
    /\ sim_seed = None

TwiceIdle ==
    /\ rng = None
    /\ search_seed = None
    /\ run_no = 0
    /\ first_run = None

DetailIdle == detail_out = None

AggIdle ==
    /\ sim_drawn = <<>>
    /\ sim_acc = None
    /\ sim_out = None
    /\ exact_total = None

ShapeIdle == lengths = None

OtherIdle ==
    AliasIdle /\ SimIdle /\ TwiceIdle /\ DetailIdle /\ AggIdle /\ ShapeIdle

MachineIdle ==
    /\ symbol_lists = <<>>
    /\ spin_stops = None
    /\ ctor_raised = ""

RetryIdle ==
    /\ req = None
    /\ attempts = 0
    /\ steps = 0
    /\ cand = None
    /\ validation = None
    /\ runs = <<>>
    /\ response = None

EvalIdle ==
    /\ grid = None
    /\ bet_amount = 1
    /\ payout_out = None
    /\ reels = None
    /\ exact_out = None

SearchIdle ==
    /\ cfg = None
    /\ step = 0
    /\ current_reels = None
    /\ current_result = None
    /\ current_loss = None
    /\ best = None
    /\ best_loss = None
    /\ temperature = None
    /\ proposal = None
    /\ res = None
    /\ loss = None
    /\ accept = FALSE
    /\ returned = None
    /\ raised = ""
    /\ evals = 0
    /\ trail = <<>>
    /\ sampled = {}

(***************************************************************************)
(* SpecPayout: payout() applied to a grid.                                 *)
(***************************************************************************)
InitPayout ==
    /\ mode = "payout"
    /\ pc = "start"
    /\ grid \in Grids
    /\ bet_amount \in BetAmounts
    /\ payout_out = None
    /\ reels = None
    /\ exact_out = None
    /\ SearchIdle
    /\ RetryIdle
    /\ OtherIdle
    /\ MachineIdle

\* machine.payout(grid)
DoPayout ==
    /\ mode = "payout"
    /\ pc = "start"
    /\ payout_out' = Payout(bet_amount, grid)
    /\ pc' = "done"
    /\ UNCHANGED <<mode, otherVars, retryVars, machineVars, grid, bet_amount, reels, exact_out, searchVars>>

NextPayout == DoPayout

SpecPayout == InitPayout /\ [][NextPayout]_vars

(***************************************************************************)
(* SpecExact: ExactEvaluator(machine).run() on small reels.                *)
(***************************************************************************)
InitExact ==
    /\ mode = "exact"
    /\ pc = "start"
    /\ reels \in ReelTriples
    /\ bet_amount \in ExactBets
    /\ exact_out = None
    /\ grid = None
    /\ payout_out = None
    /\ SearchIdle
    /\ RetryIdle
    /\ OtherIdle
    /\ MachineIdle

\* exact.run()
DoExactRun ==
    /\ mode = "exact"
    /\ pc = "start"
    /\ exact_out' = ExactRun(reels, bet_amount)
    /\ pc' = "done"
    /\ UNCHANGED <<mode, otherVars, retryVars, machineVars, grid, bet_amount, payout_out, reels, searchVars>>

NextExact == DoExactRun

SpecExact == InitExact /\ [][NextExact]_vars

\* The payout engine and the exact evaluator together: a behaviour scores
\* one grid or evaluates one reel triple.
InitEval == InitPayout \/ InitExact

NextEval ==
    \/ DoPayout
    \/ DoExactRun

SpecEval == InitEval /\ [][NextEval]_vars

(***************************************************************************)
(* SpecSearch: ReelSearch(cfg).search().                                   *)
(***************************************************************************)
\* A search runs at most MaxWork sampled spins in its loop:
\* max_steps * spins_per_eval <= MaxWork.
MaxWork == 2

\* The targets and sample sizes of the configurations searched: the
\* defaults of SearchConfig with one spin per evaluation, a target of zero,
\* a target the sampled payouts can meet, and a sample size of zero.
SearchTargets ==
    {[target_rtp |-> Rat(95, 100), min_win_rate |-> Rat(55, 100), spins_per_eval |-> 1],
     [target_rtp |-> Rat(0, 100), min_win_rate |-> Rat(0, 100), spins_per_eval |-> 1],
     [target_rtp |-> Rat(25, 100), min_win_rate |-> Rat(50, 100), spins_per_eval |-> 2],
     [target_rtp |-> Rat(95, 100), min_win_rate |-> Rat(55, 100), spins_per_eval |-> 0]}

SearchConfigs ==
    UNION {{[target_rtp |-> t.target_rtp, min_win_rate |-> t.min_win_rate,
             max_steps |-> n, spins_per_eval |-> t.spins_per_eval] :
            n \in {k \in 0..MaxWork : k * t.spins_per_eval <= MaxWork}} :
           t \in SearchTargets}

Candidate(rs, result) == [reels |-> rs, result |-> result]

InitSearch ==
    /\ mode = "search"
    /\ pc = "start"
    /\ EvalIdle
    /\ RetryIdle
    /\ OtherIdle
    /\ MachineIdle
    /\ cfg \in SearchConfigs
    /\ step = 0
    /\ current_reels = None
    /\ current_result = None
    /\ current_loss = None
    /\ best = None
    /\ best_loss = None
    /\ temperature = None
    /\ proposal = None
    /\ res = None
    /\ loss = None
    /\ accept = FALSE
    /\ returned = None
    /\ raised = ""
    /\ evals = 0
    /\ trail = <<>>
    /\ sampled = {}

\* search() up to its first iteration, for the random candidate rs and
\* its evaluation: with no iteration to run, best is returned.
SearchStartWith(rs, result) ==
    /\ evals' = evals + 1
    /\ IF result.raised # ""
       THEN /\ pc' = "error"
            /\ raised' = result.raised
            /\ UNCHANGED <<current_reels, current_result, current_loss, best,
                           best_loss, temperature, trail, sampled, returned>>
       ELSE /\ current_reels' = rs
            /\ current_result' = result
            /\ current_loss' = loss_of(cfg, result)
            /\ best' = Candidate(rs, result)
            /\ best_loss' = loss_of(cfg, result)
            /\ temperature' = Rat(1, 1)
            /\ trail' = <<[reels |-> rs, result |-> result,
                           loss |-> loss_of(cfg, result)]>>
            /\ sampled' = {loss_of(cfg, result)}
            /\ IF loop_continues(cfg, 0)
               THEN pc' = "loop" /\ returned' = returned
               ELSE pc' = "done" /\ returned' = Candidate(rs, result)
            /\ UNCHANGED raised
    /\ UNCHANGED <<cfg, step, proposal, res, loss, accept>>

SearchStart ==
    /\ mode = "search"
    /\ pc = "start"
    /\ \E rs \in random_candidate : \E result \in evaluate(cfg, rs) :
         SearchStartWith(rs, result)
    /\ UNCHANGED <<mode, otherVars, retryVars, machineVars, evalVars>>

\* One iteration of the loop of search() for the mutation m, the evaluation
\* of its reels and the outcome a of the acceptance test: mutate, evaluate,
\* accept or reject, cool down; then best is returned if the early-exit
\* test holds or no iteration is left.
SearchStepWith(m, result, a) ==
    /\ IF m.raised # ""
       THEN /\ pc' = "error"
            /\ raised' = m.raised
            /\ UNCHANGED <<step, current_reels, current_result, current_loss, best,
                           best_loss, temperature, proposal, res, loss, accept,
                           returned, evals, trail, sampled>>
       ELSE /\ evals' = evals + 1
            /\ proposal' = m.reels
            /\ IF result.raised # ""
               THEN /\ pc' = "error"
                    /\ raised' = result.raised
                    /\ UNCHANGED <<step, current_reels, current_result,
                                   current_loss, best, best_loss, temperature,
                                   res, loss, accept, returned, trail, sampled>>
               ELSE LET l == loss_of(cfg, result)
                        tracked == IF improves_best(a, l, best_loss)
                                   THEN Candidate(m.reels, result) ELSE best
                        new_best == IF early_exit(cfg, result)
                                    THEN Candidate(m.reels, result)
                                    ELSE tracked
                    IN  /\ res' = result
                        /\ loss' = l
                        /\ sampled' = sampled \cup {l}
                        /\ accept' = a
                        /\ step' = step + 1
                        /\ IF a
                           THEN /\ current_reels' = m.reels
                                /\ current_result' = result
                                /\ current_loss' = l
                                /\ trail' = Append(trail,
                                      [reels |-> m.reels, result |-> result,
                                       loss |-> l])
                           ELSE UNCHANGED <<current_reels, current_result,
                                            current_loss, trail>>
                        /\ best_loss' = IF improves_best(a, l, best_loss)
                                        THEN l ELSE best_loss
                        /\ temperature' = cool_down(temperature)
                        /\ best' = new_best
                        /\ IF early_exit(cfg, result)
                              \/ ~loop_continues(cfg, step + 1)
                           THEN pc' = "done" /\ returned' = new_best
                           ELSE pc' = "loop" /\ returned' = returned
                        /\ UNCHANGED raised
    /\ UNCHANGED cfg

\* The evaluations of the reels of a mutation (none when it raised), and
\* the outcomes of the acceptance test (none to take when either raised).
step_results(m) == IF m.raised # "" THEN {None} ELSE evaluate(cfg, m.reels)

step_accepts(m, result) ==
    IF m.raised # "" \/ result.raised # ""
    THEN {FALSE}
    ELSE accept_outcomes(current_loss, loss_of(cfg, result), temperature)

SearchStep ==
    /\ mode = "search"
    /\ pc = "loop"
    /\ loop_continues(cfg, step)
    /\ \E m \in mutate(current_reels) :
         \E result \in step_results(m) :
           \E a \in step_accepts(m, result) :
             SearchStepWith(m, result, a)
    /\ UNCHANGED <<mode, otherVars, retryVars, machineVars, evalVars>>

NextSearch == SearchStart \/ SearchStep

SpecSearch == InitSearch /\ [][NextSearch]_vars

(***************************************************************************)
(* Properties of the search.                                               *)
(***************************************************************************)
\* search() has returned after a step on which the early-exit test held.
EarlyStopped == mode = "search" /\ pc = "done" /\ step > 0 /\ early_exit(cfg, res)

\* trail[i] has the lowest loss of the trail and is the first to have it.
FirstMinimum(i) ==
    /\ \A j \in DOMAIN trail : ~RatLess(trail[j].loss, trail[i].loss)
    /\ \A j \in 1..(i - 1) : RatLess(trail[i].loss, trail[j].loss)

\* C1: when search() returns without an early stop it has run exactly
\* max_steps iterations, and the candidate returned is the first of the
\* initial candidate and the accepted proposals to have the lowest sampled
\* loss among them.
C1_ReturnsFirstLowestLoss ==
    (mode = "search" /\ pc = "done" /\ ~EarlyStopped) =>
        /\ step = cfg.max_steps
        /\ \E i \in DOMAIN trail :
             /\ FirstMinimum(i)
             /\ returned = Candidate(trail[i].reels, trail[i].result)

\* C1 witness: a run of max_steps >= 1 steps without early stop that returns
\* a candidate other than the final current state, a later accepted
\* proposal having the same loss as the one returned.
C1_Witness ==
    /\ mode = "search" /\ pc = "done" /\ ~EarlyStopped
    /\ cfg.max_steps >= 2
    /\ step = cfg.max_steps
    /\ returned # Candidate(current_reels, current_result)
    /\ \E i, j \in DOMAIN trail :
         i < j /\ trail[i].loss = trail[j].loss /\ FirstMinimum(i) /\ i > 1

C3_ZeroStepsReturnsInitial ==
    (mode = "search" /\ pc = "done" /\ cfg.max_steps = 0) =>
        /\ Len(trail) = 1
        /\ returned = Candidate(trail[1].reels, trail[1].result)
        /\ returned.reels \in random_candidate
        /\ returned.result \in evaluate(cfg, returned.reels)
        /\ step = 0
        /\ proposal = None
        /\ evals = 1

\* C3 witness: a search with max_steps = 0 has returned.
C3_Witness ==
    /\ mode = "search" /\ pc = "done" /\ cfg.max_steps = 0
    /\ returned = Candidate(current_reels, current_result)

\* C4 (as stated): the search never fails: it raises nothing and runs at
\* most max_steps steps, for every configuration.
C4_SearchNeverFails ==
    mode = "search" => (pc # "error" /\ raised = "" /\ step <= cfg.max_steps)

\* A step of search() has run to its end (no exception).
StepTaken == mode = "search" /\ pc = "loop" /\ step' = step + 1

\* C17 as claimed: an improving proposal is always accepted and becomes
\* current; and when a proposal is rejected, the current reels, sample and
\* loss, the best candidate and the best loss are all left unchanged.
C17_RejectionChangesNothing ==
    [][StepTaken =>
         /\ RatLess(loss', current_loss) => accept'
         /\ accept' => /\ current_reels' = proposal'
                       /\ current_result' = res'
                       /\ current_loss' = loss'
         /\ ~accept' => UNCHANGED <<current_reels, current_result, current_loss,
                                    best, best_loss>>]_vars

\* C17 amended: as claimed, except that a rejected proposal on which the
\* early-exit test holds replaces the best candidate (the best loss is
\* still unchanged).
C17_RejectionFrame ==
    [][StepTaken =>
         /\ RatLess(loss', current_loss) => accept'
         /\ accept' => /\ current_reels' = proposal'
                       /\ current_result' = res'
                       /\ current_loss' = loss'
         /\ ~accept' =>
              /\ UNCHANGED <<current_reels, current_result, current_loss, best_loss>>
              /\ IF early_exit(cfg, res')
                 THEN best' = Candidate(proposal', res')
                 ELSE best' = best]_vars

\* C17 witness: a step has rejected its proposal without an early stop,
\* and the current and best candidates are still the initial one.
C17_Witness ==
    /\ mode = "search" /\ pc \in {"loop", "done"} /\ step = 1
    /\ ~accept
    /\ ~early_exit(cfg, res)
    /\ proposal # current_reels
    /\ current_reels = trail[1].reels
    /\ best = Candidate(trail[1].reels, trail[1].result)
    /\ best_loss = trail[1].loss

\* C18: the temperature is 1.0 before the first step and is multiplied by
\* 0.98 once in every executed step, accepted, rejected or stopping early:
\* after k steps it is 0.98^k = (49/50)^k.
C18_TemperatureSchedule ==
    (mode = "search" /\ pc \in {"loop", "done"}) =>
        temperature = Rat(49 ^ step, 50 ^ step)

\* C18 witness: two steps were executed, the first accepted and the second
\* rejected, and the temperature is 0.98^2.
C18_Witness ==
    /\ mode = "search" /\ pc = "done" /\ step = 2
    /\ Len(trail) = 2
    /\ ~accept
    /\ temperature = Rat(2401, 2500)

\* C19: every evaluation runs a new sample of spins_per_eval spins, none
\* is answered from an earlier one, and after k steps exactly k + 1
\* evaluations were made.
C19_EveryEvaluationSamples ==
    (mode = "search" /\ pc \in {"loop", "done"}) =>
        /\ evals = step + 1
        /\ \A i \in DOMAIN trail : trail[i].result.spins = cfg.spins_per_eval
        /\ step > 0 => res.spins = cfg.spins_per_eval

\* C19 witness: the proposal of the first step has the reels of the initial
\* candidate and was sampled again, with a different result.
C19_Witness ==
    /\ mode = "search" /\ pc \in {"loop", "done"} /\ step = 1
    /\ evals = 2
    /\ proposal = trail[1].reels
    /\ res # trail[1].result

\* C24: at every step boundary best_loss <= current_loss, and unless the
\* early stop has replaced best, best_loss is the loss of the sample kept
\* in best; a rejected proposal has loss >= best_loss; best_loss is the
\* least loss over every sample evaluated so far, rejected proposals
\* included, and without early stop the candidate returned has that loss.
C24_BestLossIsTheMinimum ==
    (mode = "search" /\ pc \in {"loop", "done"}) =>
        /\ RatLeq(best_loss, current_loss)
        /\ ~EarlyStopped => best_loss = loss_of(cfg, best.result)
        /\ (step >= 1 /\ ~accept) => RatLeq(best_loss, loss)
        /\ best_loss \in sampled
        /\ \A l \in sampled : RatLeq(best_loss, l)
        /\ Cardinality(sampled) <= evals
        /\ (pc = "done" /\ ~EarlyStopped) =>
              /\ loss_of(cfg, returned.result) = best_loss
              /\ \A l \in sampled : RatLeq(loss_of(cfg, returned.result), l)

\* C24 witness: two steps without early stop; the first proposal improved
\* and became best, the second was worse and rejected; three different
\* losses were sampled and the least is returned.
C24_Witness ==
    /\ mode = "search" /\ pc = "done" /\ step = 2
    /\ ~EarlyStopped
    /\ ~accept
    /\ Len(trail) = 2
    /\ RatLess(trail[2].loss, trail[1].loss)
    /\ RatLess(best_loss, loss)
    /\ Cardinality(sampled) = 3
    /\ returned.reels = trail[2].reels

(***************************************************************************)
(* SpecAlias: the loop of search() with the symbol lists as objects.  A    *)
(* Reel holds the list it was built from; heap[a] is the list at address   *)
(* a, and a candidate's reels are three addresses.  The samples and losses *)
(* are left out: a step may accept or reject, and may replace best.        *)
(***************************************************************************)
\* The steps followed.
MaxMutations == 2

\* The lists at three addresses.
Deref(h, refs) == [c \in 1..3 |-> h[refs[c]]]

\* Mutant of working_lists: rlist = [r.symbols for r in reels], the lists
\* of the reels themselves.
working_lists_shared(h, refs) == [heap |-> h, refs |-> refs]

\* rlist = [list(r.symbols) for r in reels]: three new lists, copies of the
\* reels' lists.
working_lists(h, refs) ==
    [heap |-> h \o <<h[refs[1]], h[refs[2]], h[refs[3]]>>,
     refs |-> <<Len(h) + 1, Len(h) + 2, Len(h) + 3>>]

\* The branches of _mutate write into rlist; the lists of rlist end as the
\* lists of the reels returned (Reel(s) for s in rlist).
written(w, new_lists) ==
    [a \in DOMAIN w.heap |->
        IF \E c \in 1..3 : w.refs[c] = a
        THEN new_lists[CHOOSE c \in 1..3 : w.refs[c] = a]
        ELSE w.heap[a]]

InitAlias ==
    /\ mode = "alias"
    /\ pc = "start"
    /\ heap = <<>>
    /\ cur_refs = None
    /\ best_refs = None
    /\ prop_refs = None
    /\ arg_refs = None
    /\ SimIdle /\ TwiceIdle /\ DetailIdle /\ AggIdle
    /\ ShapeIdle
    /\ EvalIdle /\ SearchIdle /\ RetryIdle /\ MachineIdle

\* current_reels = self._random_candidate(); best = Candidate(reels=
\* current_reels, ...): best holds the very reels of current_reels.
AliasStart ==
    /\ mode = "alias" /\ pc = "start"
    /\ \E rs \in random_candidate :
          /\ heap' = rs
          /\ cur_refs' = <<1, 2, 3>>
          /\ best_refs' = <<1, 2, 3>>
    /\ pc' = "loop"
    /\ UNCHANGED <<mode, shapeVars, detailVars, aggVars, prop_refs, arg_refs, simVars, twiceVars, evalVars,
                   searchVars, retryVars, machineVars>>

\* One iteration: proposal = self._mutate(current_reels); if accept, the
\* proposal becomes current; best becomes Candidate(proposal, res) on an
\* accepted improvement or on the early exit.
AliasStep ==
    /\ mode = "alias" /\ pc = "loop"
    /\ Len(heap) < 3 + 3 * MaxMutations
    /\ \E m \in mutate(Deref(heap, cur_refs)) :
         IF m.raised # ""
         THEN /\ pc' = "error"
              /\ UNCHANGED aliasVars
         ELSE LET w == working_lists(heap, cur_refs)
              IN  /\ heap' = written(w, m.reels)
                  /\ arg_refs' = cur_refs
                  /\ prop_refs' = w.refs
                  /\ \E a \in BOOLEAN, b \in BOOLEAN :
                        /\ cur_refs' = IF a THEN w.refs ELSE cur_refs
                        /\ best_refs' = IF b THEN w.refs ELSE best_refs
                  /\ pc' = "loop"
    /\ UNCHANGED <<mode, shapeVars, detailVars, aggVars, simVars, twiceVars, evalVars, searchVars, retryVars,
                   machineVars>>

NextAlias == AliasStart \/ AliasStep

SpecAlias == InitAlias /\ [][NextAlias]_vars

\* C20: _mutate never modifies the lists of the reels it is given and the
\* reels it returns share no list with them, so no list that exists (those
\* of the current and of the best candidate among them) is ever changed by
\* a later step.
C20_MutationIsPure ==
    /\ [][mode = "alias" => \A a \in DOMAIN heap : heap'[a] = heap[a]]_vars
    /\ []((mode = "alias" /\ prop_refs # None) =>
             \A c \in 1..3, d \in 1..3 : prop_refs[c] # arg_refs[d])

\* C20 witness: two proposals were made from the initial reels, both
\* different from them and both rejected, while best moved to the first.
C20_Witness ==
    /\ mode = "alias" /\ pc = "loop"
    /\ Len(heap) = 9
    /\ cur_refs = <<1, 2, 3>>
    /\ arg_refs = <<1, 2, 3>>
    /\ best_refs = <<4, 5, 6>>
    /\ prop_refs = <<7, 8, 9>>
    /\ Deref(heap, best_refs) # Deref(heap, cur_refs)
    /\ Deref(heap, prop_refs) # Deref(heap, cur_refs)

(***************************************************************************)
(* The retry loops of main() (the command line) and post_search() (POST    *)
(* /search).  A search run is taken by its outcome: search() raises when   *)
(* its first evaluation does (spins_per_eval = 0), and otherwise returns a *)
(* candidate, here any of three reel triples the engine can generate.      *)
(***************************************************************************)
\* seed = None and seed = n.
NoSeed == [some |-> FALSE, val |-> 0]

Seed(n) == [some |-> TRUE, val |-> n]

\* target_rtp = 0.95, min_win = 0.55, max_attempts = 8.
target_rtp == Rat(95, 100)

min_win == Rat(55, 100)

max_attempts == 8

\* abs(validation.rtp - target_rtp) <= tol with tol = 1e-6: d <= 1/10^6,
\* computed as d.num <= floor(d.den / 10^6).
WithinTol(rtp) ==
    LET d == RatAbs(RatSub(rtp, target_rtp))
    IN  d.num <= d.den \div 1000000

\* post_search(): abs(val.rtp - target_rtp) <= tol and val.win_rate >= min_win.
constraints_met(v) == WithinTol(v.rtp) /\ RatLeq(min_win, v.win_rate)

\* main(): abs(validation.rtp - target_rtp) > tol or validation.win_rate < min_win.
constraints_unmet(v) == ~WithinTol(v.rtp) \/ RatLess(v.win_rate, min_win)

\* main(): attempts < max_attempts.
attempts_left(a) == a < max_attempts

\* Mutant of attempts_exhausted: ">" for ">=".
attempts_exhausted_late(a) == a > max_attempts

\* post_search(): attempts >= max_attempts.
attempts_exhausted(a) == a >= max_attempts

\* int(steps * 1.5): the float product truncated toward zero.
escalated_steps(n) ==
    IF n >= 0 THEN (3 * n) \div 2 ELSE 0 - ((3 * (0 - n)) \div 2)

\* main(): seed = args.seed + attempts.
main_retry_seed(seed, a) == Seed(seed.val + a)

\* post_search(): seed = (req.seed or 0) + attempts.
post_retry_seed(seed, a) ==
    Seed((IF seed.some /\ seed.val # 0 THEN seed.val ELSE 0) + a)

\* Reel triples search() can return: each reel has 8 symbols in runs the
\* generator produces.  Exactly evaluated, the first has rtp = 0.95 and
\* win_rate = 0.69140625, the second rtp = 0.95 and win_rate = 0.4453125,
\* the third rtp = 4.95 and win_rate = 1.
PassingReels ==
    << <<1, 1, 1, 1, 1, 1, 1, 2>>, <<3, 3, 1, 1, 1, 1, 1, 2>>,
       <<1, 1, 3, 3, 3, 3, 3, 3>> >>

LowWinRateReels ==
    << <<4, 4, 4, 4, 0, 0, 0, 2>>, <<4, 4, 1, 1, 1, 0, 0, 0>>,
       <<1, 1, 1, 1, 1, 4, 4, 4>> >>

HighRtpReels ==
    << <<1, 1, 1, 1, 1, 1, 1, 1>>, <<1, 1, 1, 1, 1, 1, 1, 1>>,
       <<1, 1, 1, 1, 1, 1, 1, 1>> >>

SearchOutcomes == {PassingReels, LowWinRateReels, HighRtpReels}

\* ReelSearch(cfg).search() raises: its first _evaluate divides by spins = 0.
search_raises(c) == c.spins_per_eval = 0

\* SlotMachine(reels, bet_amount=1.0), ExactEvaluator(machine).run(): the
\* ExactMetrics of each reel triple a search can return.
exact_validation ==
    [rs \in SearchOutcomes |->
        LET m == ExactRun(rs, 1)
        IN  [spins |-> m.spins, total_bet |-> m.total_bet,
             total_return |-> m.total_return, win_rate |-> m.win_rate,
             rtp |-> m.rtp]]

\* The digits of rem/den after the point, places of them, appended to acc.
RECURSIVE RoundDigits(_, _, _, _)
RoundDigits(acc, rem, den, places) ==
    IF places = 0 THEN [q |-> acc, rem |-> rem]
    ELSE RoundDigits(acc * 10 + (rem * 10) \div den, (rem * 10) % den, den,
                     places - 1)

\* round(x, places) for x >= 0 and places >= 1: the nearest multiple of
\* 10^-places, a tie going to the even one; the whole part and the rounded
\* fraction are added as rationals.
round(x, places) ==
    LET d == RoundDigits(0, x.num % x.den, x.den, places)
        up == \/ 2 * d.rem > x.den
              \/ 2 * d.rem = x.den /\ d.q % 2 = 1
    IN  RatAdd(Rat(x.num \div x.den, 1),
               Rat(IF up THEN d.q + 1 ELSE d.q, 10 ^ places))

\* The "validation" object written or returned: rtp and win_rate rounded
\* to places, total_return to places_return.
reported(v, places, places_return) ==
    [spins |-> v.spins,
     rtp |-> round(v.rtp, places),
     win_rate |-> round(v.win_rate, places),
     total_bet |-> v.total_bet,
     total_return |-> round(Rat(v.total_return, 100), places_return)]

\* One search run as recorded: its SearchConfig and the reels returned
\* (none when it raised).
RunOf(c, rs) ==
    [max_steps |-> c.max_steps, spins_per_eval |-> c.spins_per_eval,
     seed |-> c.seed, reels |-> rs]

\* The arguments: --steps, --eval-spins and --seed are any integers; the
\* request has steps >= 1, eval_spins >= 100 and an optional seed.
MainArgs ==
    [steps : {-2, 0, 1, 2, 800}, eval_spins : {0, 50000},
     seed : {Seed(0), Seed(42)}]

PostRequests ==
    [steps : {1, 2, 800}, eval_spins : {100},
     seed : {NoSeed, Seed(0), Seed(42)}]

InitRetry ==
    /\ mode \in {"cli", "server"}
    /\ pc = "start"
    /\ req \in (IF mode = "cli" THEN MainArgs ELSE PostRequests)
    /\ attempts = 0
    /\ steps = 0
    /\ cand = None
    /\ validation = None
    /\ runs = <<>>
    /\ response = None
    /\ EvalIdle
    /\ SearchIdle
    /\ MachineIdle
    /\ OtherIdle

\* main(): the first search and its exact validation, up to the loop.
MainStart ==
    /\ mode = "cli" /\ pc = "start"
    /\ LET c == [max_steps |-> req.steps, spins_per_eval |-> req.eval_spins,
                 seed |-> req.seed]
       IN  IF search_raises(c)
           THEN /\ pc' = "error"
                /\ runs' = Append(runs, RunOf(c, <<>>))
                /\ UNCHANGED <<attempts, steps, cand, validation>>
           ELSE \E rs \in SearchOutcomes :
                   /\ cand' = rs
                   /\ validation' = exact_validation[rs]
                   /\ runs' = Append(runs, RunOf(c, rs))
                   /\ attempts' = 0
                   /\ steps' = req.steps
                   /\ pc' = "loop"
    /\ UNCHANGED <<mode, otherVars, machineVars, evalVars, searchVars, req, response>>

\* main(): one iteration of the while loop.
MainRetry ==
    /\ mode = "cli" /\ pc = "loop"
    /\ constraints_unmet(validation) /\ attempts_left(attempts)
    /\ LET a == attempts + 1
           n == escalated_steps(steps)
           c == [max_steps |-> n, spins_per_eval |-> req.eval_spins,
                 seed |-> main_retry_seed(req.seed, a)]
       IN  /\ attempts' = a
           /\ steps' = n
           /\ IF search_raises(c)
              THEN /\ pc' = "error"
                   /\ runs' = Append(runs, RunOf(c, <<>>))
                   /\ UNCHANGED <<cand, validation>>
              ELSE \E rs \in SearchOutcomes :
                      /\ cand' = rs
                      /\ validation' = exact_validation[rs]
                      /\ runs' = Append(runs, RunOf(c, rs))
                      /\ pc' = "loop"
    /\ UNCHANGED <<mode, otherVars, machineVars, evalVars, searchVars, req, response>>

\* main(): the loop is left; the file is written and the exit status set
\* (SystemExit(1) when the constraints are not met).
MainFinish ==
    /\ mode = "cli" /\ pc = "loop"
    /\ ~(constraints_unmet(validation) /\ attempts_left(attempts))
    /\ response' = [reels |-> cand,
                    validation |-> reported(validation, 4, 2),
                    status |-> IF constraints_unmet(validation) THEN 1 ELSE 0]
    /\ pc' = "done"
    /\ UNCHANGED <<mode, otherVars, machineVars, evalVars, searchVars, req, attempts, steps, cand,
                   validation, runs>>

\* post_search(): the first search, up to the loop.
PostSearchStart ==
    /\ mode = "server" /\ pc = "start"
    /\ LET c == [max_steps |-> req.steps, spins_per_eval |-> req.eval_spins,
                 seed |-> req.seed]
       IN  IF search_raises(c)
           THEN /\ pc' = "error"
                /\ runs' = Append(runs, RunOf(c, <<>>))
                /\ UNCHANGED <<attempts, steps, cand>>
           ELSE \E rs \in SearchOutcomes :
                   /\ cand' = rs
                   /\ runs' = Append(runs, RunOf(c, rs))
                   /\ attempts' = 0
                   /\ steps' = req.steps
                   /\ pc' = "loop"
    /\ UNCHANGED <<mode, otherVars, machineVars, evalVars, searchVars, req, validation, response>>

\* post_search(): one iteration of the while True loop: the validation,
\* then either of the two breaks and the response, or the next search.
PostSearchIterate ==
    /\ mode = "server" /\ pc = "loop"
    /\ LET val == exact_validation[cand]
       IN  /\ validation' = val
           /\ IF constraints_met(val) \/ attempts_exhausted(attempts)
              THEN /\ response' = [reels |-> cand,
                                   validation |-> reported(val, 6, 6),
                                   status |-> 200]
                   /\ pc' = "done"
                   /\ UNCHANGED <<attempts, steps, cand, runs>>
              ELSE LET a == attempts + 1
                       n == escalated_steps(steps)
                       c == [max_steps |-> n,
                             spins_per_eval |-> req.eval_spins,
                             seed |-> post_retry_seed(req.seed, a)]
                   IN  /\ attempts' = a
                       /\ steps' = n
                       /\ UNCHANGED response
                       /\ IF search_raises(c)
                          THEN /\ pc' = "error"
                               /\ runs' = Append(runs, RunOf(c, <<>>))
                               /\ UNCHANGED cand
                          ELSE \E rs \in SearchOutcomes :
                                  /\ cand' = rs
                                  /\ runs' = Append(runs, RunOf(c, rs))
                                  /\ pc' = "loop"
    /\ UNCHANGED <<mode, otherVars, machineVars, evalVars, searchVars, req>>

NextRetry ==
    \/ MainStart
    \/ MainRetry
    \/ MainFinish
    \/ PostSearchStart
    \/ PostSearchIterate

SpecRetry == InitRetry /\ [][NextRetry]_vars

(***************************************************************************)
(* SpecSim: two Simulator instances on the same machine.  random.Random is *)
(* a deterministic generator: a state, a step from a state to the next,    *)
(* and a value read off the state.  Here the state is one of eight, the    *)
(* step has the full period, and randrange(n) reads the high part.         *)
(***************************************************************************)
\* The spins of a run.
MaxSimSpins == 2

GeneratorStates == 0..7

\* The state after one more draw.
Advance(g) == (5 * g + 3) % 8

\* The value randrange(n) returns once the state has advanced to g.
Value(g, n) == (g * n) \div 8

\* Mutant of seeded: the seed is not passed on, random.Random().
seeded_from_entropy(seed, entropy) == entropy

\* random.Random(seed): the state is a function of an integer seed, and is
\* taken from the system's entropy when seed is None.
seeded(seed, entropy) == IF seed.some THEN seed.val % 8 ELSE entropy

\* tuple(self.random.randrange(reel.length) for reel in reels): three draws
\* in order, from the instance's own generator.
draw_stops(g, rs) ==
    LET g1 == Advance(g)
        g2 == Advance(g1)
        g3 == Advance(g2)
    IN  [stops |-> <<Value(g1, Len(rs[1])), Value(g2, Len(rs[2])),
                     Value(g3, Len(rs[3]))>>,
         random |-> g3]

\* Simulator(machine, seed)
simulator_init(rs, bet, seed, entropy) ==
    [reels |-> rs, bet |-> bet, random |-> seeded(seed, entropy),
     at |-> "new", drawn |-> <<>>,
     acc |-> [total_return |-> 0, wins |-> 0, err |-> FALSE],
     result |-> None]

SimSeeds == {NoSeed} \cup {Seed(n) : n \in 0..9}

SimMachines == {<<r, r, r>> : r \in SmallReels({0, 1})}

InitSim ==
    /\ mode = "sim"
    /\ pc = "start"
    /\ sims = <<>>
    /\ sim_spins \in 0..MaxSimSpins
    /\ sim_seed \in SimSeeds
    /\ AliasIdle /\ TwiceIdle /\ DetailIdle /\ AggIdle
    /\ ShapeIdle
    /\ EvalIdle /\ SearchIdle /\ RetryIdle /\ MachineIdle

\* Two instances are constructed with the same machine and the same seed.
SimulatorsInit ==
    /\ mode = "sim" /\ pc = "start"
    /\ \E rs \in SimMachines, bet \in ExactBets,
          e1 \in GeneratorStates, e2 \in GeneratorStates :
          sims' = <<simulator_init(rs, bet, sim_seed, e1),
                    simulator_init(rs, bet, sim_seed, e2)>>
    /\ pc' = "run"
    /\ UNCHANGED <<mode, shapeVars, detailVars, aggVars, sim_spins, sim_seed, aliasVars, twiceVars, evalVars,
                   searchVars, retryVars, machineVars>>

\* One iteration of the loop of run() in instance i.
SimSpin(i) ==
    /\ mode = "sim" /\ pc = "run"
    /\ sims[i].at # "done"
    /\ Len(sims[i].drawn) < sim_spins
    /\ LET d == draw_stops(sims[i].random, sims[i].reels)
       IN  sims' = [sims EXCEPT
                      ![i].at = "running",
                      ![i].random = d.random,
                      ![i].drawn = Append(@, d.stops),
                      ![i].acc = SimVisit(sims[i].reels, sims[i].bet, @, d.stops)]
    /\ UNCHANGED <<mode, shapeVars, detailVars, aggVars, pc, sim_spins, sim_seed, aliasVars, twiceVars,
                   evalVars, searchVars, retryVars, machineVars>>

\* The loop of run() is over in instance i: the metrics are computed.
SimFinish(i) ==
    /\ mode = "sim" /\ pc = "run"
    /\ sims[i].at # "done"
    /\ Len(sims[i].drawn) = sim_spins
    /\ sims' = [sims EXCEPT
                  ![i].at = "done",
                  ![i].result = SimResult(sims[i].bet, sim_spins, sims[i].acc)]
    /\ UNCHANGED <<mode, shapeVars, detailVars, aggVars, pc, sim_spins, sim_seed, aliasVars, twiceVars,
                   evalVars, searchVars, retryVars, machineVars>>

NextSim ==
    \/ SimulatorsInit
    \/ \E i \in 1..2 : SimSpin(i)
    \/ \E i \in 1..2 : SimFinish(i)

SpecSim == InitSim /\ [][NextSim]_vars

\* C15: two simulators built with the same integer seed on the same reels
\* and bet and run for the same number of spins draw the same stop triples,
\* spin for spin, and return the same metrics (or fail alike).
C15_SameSeedSameRun ==
    (mode = "sim" /\ pc = "run" /\ sim_seed.some) =>
        /\ \A k \in 1..sim_spins :
              (k <= Len(sims[1].drawn) /\ k <= Len(sims[2].drawn)) =>
                  sims[1].drawn[k] = sims[2].drawn[k]
        /\ (sims[1].at = "done" /\ sims[2].at = "done") =>
              sims[1].result = sims[2].result

\* C15 witness: both seeded runs returned after two spins on different
\* stops, one of them a win.
C15_Witness ==
    /\ mode = "sim" /\ pc = "run" /\ sim_seed.some
    /\ sims[1].at = "done" /\ sims[2].at = "done"
    /\ sim_spins = 2
    /\ sims[1].drawn[1] # sims[1].drawn[2]
    /\ sims[1].result.raised = ""
    /\ sims[1].result.total_return > 0
    /\ RatLess(sims[1].result.win_rate, Rat(1, 1))

(***************************************************************************)
(* SpecTwice: ReelSearch(cfg).search() run twice with the same config,     *)
(* every choice taken from the draws of the generators.  self.rng is a     *)
(* generator as above with the values it has returned; a draw among the    *)
(* outcomes of _random_candidate or of _mutate stands for the draws these  *)
(* make, and picks the outcome the drawn value indexes.                    *)
(***************************************************************************)
\* One draw of self.rng with n values.
draw(g, n) ==
    LET s == Advance(g.state)
    IN  [value |-> Value(s, n),
         rng |-> [state |-> s, drawn |-> Append(g.drawn, Value(s, n))]]

\* The outcome a drawn value picks: the k-th of S in a fixed order.
RECURSIVE Nth(_, _)
Nth(S, k) ==
    LET first == CHOOSE x \in S : TRUE
    IN  IF k <= 0 THEN first ELSE Nth(S \ {first}, k - 1)

\* Mutant of simulator_seed: Simulator(machine), no seed passed.
simulator_seed_missing(drawn) == NoSeed

\* Simulator(machine, seed=self.rng.randrange(1_000_000_000))
simulator_seed(drawn) == Seed(drawn)

\* The accumulators of run() after n spins from generator state g.
RECURSIVE seeded_loop(_, _, _, _, _)
seeded_loop(rs, bet, n, g, acc) ==
    IF n <= 0 THEN acc
    ELSE LET d == draw_stops(g, rs)
         IN  seeded_loop(rs, bet, n - 1, d.random, SimVisit(rs, bet, acc, d.stops))

\* Simulator(machine, seed).run(spins)
simulator_run(rs, bet, spins, seed, entropy) ==
    SimResult(bet, spins,
              seeded_loop(rs, bet, spins, seeded(seed, entropy),
                          [total_return |-> 0, wins |-> 0, err |-> FALSE]))

\* _evaluate(reels) given the value drawn for the simulator's seed.
evaluate_seeded(c, rs, drawn, entropy) ==
    simulator_run(rs, 1, c.spins_per_eval, simulator_seed(drawn), entropy)

SearchSeeds == {NoSeed} \cup {Seed(n) : n \in 0..7}

InitTwice ==
    /\ mode = "twice"
    /\ pc = "new"
    /\ EvalIdle /\ RetryIdle /\ MachineIdle /\ AliasIdle /\ SimIdle /\ DetailIdle /\ AggIdle
    /\ ShapeIdle
    /\ cfg \in SearchConfigs
    /\ search_seed \in SearchSeeds
    /\ rng = None
    /\ run_no = 0
    /\ first_run = None
    /\ step = 0
    /\ current_reels = None
    /\ current_result = None
    /\ current_loss = None
    /\ best = None
    /\ best_loss = None
    /\ temperature = None
    /\ proposal = None
    /\ res = None
    /\ loss = None
    /\ accept = FALSE
    /\ returned = None
    /\ raised = ""
    /\ evals = 0
    /\ trail = <<>>
    /\ sampled = {}

\* ReelSearch(cfg): self.rng = random.Random(self.cfg.seed).  The first
\* instance, and the second once the first search is over; what the first
\* did is kept for comparison.
ReelSearchInit ==
    /\ mode = "twice"
    /\ \/ pc = "new" /\ run_no = 0
       \/ pc \in {"done", "error"} /\ run_no = 1
    /\ \E e \in GeneratorStates :
          rng' = [state |-> seeded(search_seed, e), drawn |-> <<>>]
    /\ first_run' = IF run_no = 0 THEN None
                    ELSE [returned |-> returned, raised |-> raised,
                          trail |-> trail, evals |-> evals,
                          drawn |-> rng.drawn]
    /\ run_no' = run_no + 1
    /\ pc' = "start"
    /\ step' = 0
    /\ current_reels' = None
    /\ current_result' = None
    /\ current_loss' = None
    /\ best' = None
    /\ best_loss' = None
    /\ temperature' = None
    /\ proposal' = None
    /\ res' = None
    /\ loss' = None
    /\ accept' = FALSE
    /\ returned' = None
    /\ raised' = ""
    /\ evals' = 0
    /\ trail' = <<>>
    /\ sampled' = {}
    /\ UNCHANGED <<mode, shapeVars, detailVars, aggVars, cfg, search_seed, aliasVars, simVars, evalVars,
                   retryVars, machineVars>>

\* search() up to its first iteration, on the draws of self.rng.
TwiceStart ==
    /\ mode = "twice"
    /\ pc = "start"
    /\ LET d1 == draw(rng, Cardinality(random_candidate))
           rs == Nth(random_candidate, d1.value)
           d2 == draw(d1.rng, 8)
       IN  /\ \E e \in GeneratorStates :
                 SearchStartWith(rs, evaluate_seeded(cfg, rs, d2.value, e))
           /\ rng' = d2.rng
    /\ UNCHANGED <<mode, shapeVars, detailVars, aggVars, search_seed, run_no, first_run, aliasVars, simVars,
                   evalVars, retryVars, machineVars>>

\* One iteration of the loop of search(), on the draws of self.rng: the
\* mutation, the simulator's seed, and rng.random() when the proposal does
\* not improve.
TwiceStep ==
    /\ mode = "twice"
    /\ pc = "loop"
    /\ loop_continues(cfg, step)
    /\ LET d1 == draw(rng, Cardinality(mutate(current_reels)))
           m == Nth(mutate(current_reels), d1.value)
           d2 == draw(d1.rng, 8)
           d3 == draw(d2.rng, 2)
       IN  IF m.raised # ""
           THEN SearchStepWith(m, None, FALSE) /\ rng' = d1.rng
           ELSE \E e \in GeneratorStates :
                  LET result == evaluate_seeded(cfg, m.reels, d2.value, e)
                  IN  IF result.raised # ""
                      THEN SearchStepWith(m, result, FALSE) /\ rng' = d2.rng
                      ELSE IF RatLess(loss_of(cfg, result), current_loss)
                      THEN SearchStepWith(m, result, TRUE) /\ rng' = d2.rng
                      ELSE /\ SearchStepWith(m, result,
                                  step_accepts(m, result) = {TRUE} \/ d3.value = 0)
                           /\ rng' = d3.rng
    /\ UNCHANGED <<mode, shapeVars, detailVars, aggVars, search_seed, run_no, first_run, aliasVars, simVars,
                   evalVars, retryVars, machineVars>>

NextTwice == ReelSearchInit \/ TwiceStart \/ TwiceStep

SpecTwice == InitTwice /\ [][NextTwice]_vars

\* C16: with an integer seed, the second search makes the draws the first
\* made, in the same order, accepts the same proposals, and ends as the
\* first did: the same candidate returned, or the same failure.
C16_SearchIsDeterministic ==
    (mode = "twice" /\ run_no = 2 /\ search_seed.some) =>
        /\ \A k \in 1..Len(rng.drawn) :
              /\ k <= Len(first_run.drawn)
              /\ rng.drawn[k] = first_run.drawn[k]
        /\ \A k \in 1..Len(trail) :
              /\ k <= Len(first_run.trail)
              /\ trail[k] = first_run.trail[k]
        /\ pc \in {"done", "error"} =>
              /\ returned = first_run.returned
              /\ raised = first_run.raised
              /\ trail = first_run.trail
              /\ evals = first_run.evals
              /\ rng.drawn = first_run.drawn

\* C16 witness: the second seeded search returned after a step whose
\* proposal was accepted and a step whose proposal differed from the
\* reels kept, the returned candidate being a proposal.
C16_Witness ==
    /\ mode = "twice" /\ run_no = 2 /\ search_seed.some
    /\ pc = "done"
    /\ step >= 1
    /\ Len(trail) >= 2
    /\ returned.reels # trail[1].reels
    /\ returned = first_run.returned

(***************************************************************************)
(* SpecDetail: payout(grid) and evaluate_patterns(grid) on one machine and *)
(* one grid, called in either order.                                       *)
(***************************************************************************)
InitDetail ==
    /\ mode = "detail"
    /\ pc = "start"
    /\ grid \in Grids
    /\ bet_amount \in BetAmounts
    /\ payout_out = None
    /\ detail_out = None
    /\ reels = None
    /\ exact_out = None
    /\ SearchIdle /\ RetryIdle /\ MachineIdle
    /\ AliasIdle /\ SimIdle /\ TwiceIdle /\ AggIdle
    /\ ShapeIdle

\* machine.payout(grid)
DetailPayout ==
    /\ mode = "detail"
    /\ payout_out = None
    /\ payout_out' = Payout(bet_amount, grid)
    /\ pc' = IF detail_out = None THEN "start" ELSE "done"
    /\ UNCHANGED <<mode, shapeVars, grid, bet_amount, reels, exact_out, detail_out,
                   searchVars, retryVars, machineVars, aliasVars, simVars,
                   twiceVars, aggVars>>

\* machine.evaluate_patterns(grid)
DetailEvaluate ==
    /\ mode = "detail"
    /\ detail_out = None
    /\ detail_out' = EvaluatePatterns(bet_amount, grid)
    /\ pc' = IF payout_out = None THEN "start" ELSE "done"
    /\ UNCHANGED <<mode, shapeVars, grid, bet_amount, reels, exact_out, payout_out,
                   searchVars, retryVars, machineVars, aliasVars, simVars,
                   twiceVars, aggVars>>

NextDetail == DetailPayout \/ DetailEvaluate

SpecDetail == InitDetail /\ [][NextDetail]_vars

\* The payouts of a list of matches, summed.
RECURSIVE SumMatches(_)
SumMatches(matches) ==
    IF matches = <<>> THEN 0 ELSE Head(matches).payout + SumMatches(Tail(matches))

\* The names of the patterns that match on the grid, in the table's order.
RECURSIVE MatchingNamesFrom(_, _)
MatchingNamesFrom(g, idx) ==
    IF idx > Len(winning_patterns) THEN <<>>
    ELSE (IF PatternMatches(g, winning_patterns[idx])
          THEN <<winning_patterns[idx].name>> ELSE <<>>)
         \o MatchingNamesFrom(g, idx + 1)

\* C23: for every grid over the symbols 0..4, evaluate_patterns returns
\* the total payout(grid) returns, whichever is called first; its matches
\* are exactly the matching patterns in the table's order, each with the
\* pattern's coordinates and weight, the symbol matched and its multiplier;
\* and the payouts of the matches sum to the total.
C23_DetailAgreesWithPayout ==
    (mode = "detail" /\ pc = "done"
       /\ \A r \in 0..2, c \in 0..2 : Cell(grid, r, c) \in SYMBOL_KEYS) =>
        /\ ~detail_out.err /\ ~payout_out.err
        /\ detail_out.payout = payout_out.val
        /\ [i \in DOMAIN detail_out.matches |-> detail_out.matches[i].pattern]
              = MatchingNamesFrom(grid, 1)
        /\ \A i \in DOMAIN detail_out.matches :
              \E k \in DOMAIN winning_patterns :
                 /\ winning_patterns[k].name = detail_out.matches[i].pattern
                 /\ winning_patterns[k].coords = detail_out.matches[i].coords
                 /\ winning_patterns[k].weight = detail_out.matches[i].weight
                 /\ detail_out.matches[i].symbol = Cell(grid, 1, 1)
                 /\ detail_out.matches[i].multiplier = Multiplier100[Cell(grid, 1, 1)]
        /\ SumMatches(detail_out.matches) = detail_out.payout

\* C23 witness: both calls returned for a grid of one symbol, bet 2: five
\* matches, the last the full block, and a total of nine times the bet
\* times the multiplier.
C23_Witness ==
    /\ mode = "detail" /\ pc = "done" /\ bet_amount = 2
    /\ \A r \in 0..2, c \in 0..2 : Cell(grid, r, c) = 1
    /\ Len(detail_out.matches) = 5
    /\ detail_out.matches[5].pattern = "full_3x3"
    /\ detail_out.matches[5].payout = 550
    /\ detail_out.payout = 990
    /\ payout_out.val = 990

(***************************************************************************)
(* SpecAgg: ExactEvaluator(machine).run() and Simulator(machine).run(N) on *)
(* one machine, the simulator drawing any stops; total_return is kept both *)
(* as the number it stands for (hundredths) and as the float it is.        *)
(***************************************************************************)
\* The spins of a run, and the stop combinations of a machine.
MaxAggSpins == 4

AggReels ==
    LET R == UNION {[1..n -> SymbolDraws] : n \in 1..MaxAggSpins}
    IN  {rs \in R \X R \X R : Len(rs[1]) * Len(rs[2]) * Len(rs[3]) <= MaxAggSpins}

\* tuple(self.random.randrange(reel.length) for reel in reels): any stops.
RandomStops(rs) ==
    (0..(Len(rs[1]) - 1)) \X (0..(Len(rs[2]) - 1)) \X (0..(Len(rs[3]) - 1))

\* total_return += payout over the stop triples of a sequence, in order.
RECURSIVE TotalDoubleFrom(_, _, _, _, _)
TotalDoubleFrom(rs, bet, triples, idx, total) ==
    IF idx > Len(triples) \/ Len(total.bits) < 0 THEN total
    ELSE TotalDoubleFrom(rs, bet, triples, idx + 1,
                         DAdd(total, PayoutDouble(bet, SpinGrid(rs, triples[idx]))))

InitAgg ==
    /\ mode = "agg"
    /\ pc = "start"
    /\ reels \in AggReels
    /\ bet_amount = 1
    /\ sim_spins \in 1..MaxAggSpins
    /\ sims = <<>>
    /\ sim_seed = None
    /\ exact_out = None
    /\ exact_total = None
    /\ sim_drawn = <<>>
    /\ sim_acc = None
    /\ sim_out = None
    /\ grid = None
    /\ payout_out = None
    /\ SearchIdle /\ RetryIdle /\ MachineIdle
    /\ AliasIdle /\ TwiceIdle /\ DetailIdle
    /\ ShapeIdle

\* ExactEvaluator(machine).run(), and total_return = 0.0 of Simulator.run().
AggExact ==
    /\ mode = "agg" /\ pc = "start"
    /\ exact_out' = ExactRun(reels, bet_amount)
    /\ exact_total' = TotalDoubleFrom(reels, bet_amount,
                                      ExactRun(reels, bet_amount).visited, 1, DZero)
    /\ sim_acc' = [sums |-> [total_return |-> 0, wins |-> 0, err |-> FALSE],
                   total |-> DZero]
    /\ pc' = "run"
    /\ UNCHANGED <<mode, shapeVars, reels, bet_amount, grid, payout_out, sim_drawn, sim_out,
                   simVars, searchVars, retryVars, machineVars, aliasVars,
                   twiceVars, detailVars>>

\* One iteration of the loop of Simulator.run().
AggSpin ==
    /\ mode = "agg" /\ pc = "run"
    /\ Len(sim_drawn) < sim_spins
    /\ \E stops \in RandomStops(reels) :
          /\ sim_drawn' = Append(sim_drawn, stops)
          /\ sim_acc' = [sums |-> SimVisit(reels, bet_amount, sim_acc.sums, stops),
                         total |-> DAdd(sim_acc.total,
                                        PayoutDouble(bet_amount, SpinGrid(reels, stops)))]
    /\ UNCHANGED <<mode, shapeVars, pc, evalVars, exact_total, sim_out, simVars, searchVars,
                   retryVars, machineVars, aliasVars, twiceVars, detailVars>>

\* The loop of Simulator.run() is over: the SimulationResult.
AggFinish ==
    /\ mode = "agg" /\ pc = "run"
    /\ Len(sim_drawn) = sim_spins
    /\ sim_out' = [metrics |-> SimResult(bet_amount, sim_spins, sim_acc.sums),
                   total |-> sim_acc.total]
    /\ pc' = "done"
    /\ UNCHANGED <<mode, shapeVars, evalVars, exact_total, sim_drawn, sim_acc, simVars,
                   searchVars, retryVars, machineVars, aliasVars, twiceVars,
                   detailVars>>

NextAgg == AggExact \/ AggSpin \/ AggFinish

SpecAgg == InitAgg /\ [][NextAgg]_vars

\* The stops drawn are the stop combinations of the machine, each once.
DrewEachOnce ==
    /\ Len(sim_drawn) = Cardinality(RandomStops(reels))
    /\ Range(sim_drawn) = RandomStops(reels)

\* C22, as claimed: a run of N >= 1 spins reports spins = N, total_bet =
\* N x bet_amount, win_rate = wins / N and rtp = total_return / total_bet,
\* every stop drawn within its reel; and if the stops drawn are the stop
\* combinations each once, in any order, total_bet, total_return, win_rate
\* and rtp are the exact evaluator's, total_return being the same float.
C22_SimulatorAggregatesAsExact ==
    (mode = "agg" /\ pc = "done") =>
        /\ sim_out.metrics.raised = ""
        /\ sim_out.metrics.spins = sim_spins
        /\ sim_out.metrics.total_bet = sim_spins * bet_amount * 100
        /\ sim_out.metrics.win_rate = Rat(sim_acc.sums.wins, sim_spins)
        /\ sim_out.metrics.rtp =
              Rat(sim_out.metrics.total_return, sim_out.metrics.total_bet)
        /\ \A i \in DOMAIN sim_drawn : \A c \in 1..3 :
              sim_drawn[i][c] \in 0..(Len(reels[c]) - 1)
        /\ DrewEachOnce =>
              /\ sim_out.metrics.spins = exact_out.spins
              /\ sim_out.metrics.total_bet = exact_out.total_bet
              /\ sim_out.metrics.total_return = exact_out.total_return
              /\ sim_out.metrics.win_rate = exact_out.win_rate
              /\ sim_out.metrics.rtp = exact_out.rtp
              /\ sim_out.total = exact_total

(***************************************************************************)
(* SpecShape: _random_candidate() and one _mutate() of its reels, every    *)
(* draw of _mutate taking any value of its range.  Of the reels            *)
(* _random_reel can build, the model follows those whose successive runs   *)
(* alternate between the two symbols followed.                             *)
(***************************************************************************)
\* The lengths followed, among [randint(8, 14) for _ in range(3)].
ShapeLengths == {<<8, 8, 8>>, <<8, 11, 14>>, <<14, 9, 8>>, <<14, 14, 14>>}

\* _random_reel(length), for the draws followed.
ShapeReels(length) ==
    {r \in random_reel(length) : \A i \in 1..(Len(r) - 4) : r[i + 4] # r[i]}

InitShape ==
    /\ mode = "shape"
    /\ pc = "start"
    /\ lengths = None
    /\ SearchIdle /\ EvalIdle /\ RetryIdle /\ MachineIdle
    /\ AliasIdle /\ SimIdle /\ TwiceIdle /\ DetailIdle /\ AggIdle

\* current_reels = self._random_candidate()
ShapeStart ==
    /\ mode = "shape" /\ pc = "start"
    /\ \E l \in ShapeLengths :
          /\ l \in (8..14) \X (8..14) \X (8..14)
          /\ lengths' = l
          /\ \E rs \in ShapeReels(l[1]) \X ShapeReels(l[2]) \X ShapeReels(l[3]) :
                current_reels' = rs
    /\ pc' = "loop"
    /\ UNCHANGED <<mode, cfg, step, current_result, current_loss, best, best_loss,
                   temperature, proposal, res, loss, accept, returned, raised,
                   evals, trail, sampled, evalVars, retryVars, machineVars, aliasVars,
                   simVars, twiceVars, detailVars, aggVars>>

\* proposal = self._mutate(current_reels)
ShapeMutate ==
    /\ mode = "shape" /\ pc = "loop"
    /\ \E m \in mutate(current_reels) :
          IF m.raised # ""
          THEN pc' = "error" /\ raised' = m.raised /\ UNCHANGED proposal
          ELSE pc' = "mutated" /\ proposal' = m.reels /\ UNCHANGED raised
    /\ UNCHANGED <<mode, cfg, step, current_reels, current_result, current_loss,
                   best, best_loss, temperature, res, loss, accept, returned,
                   evals, trail, sampled, evalVars, retryVars, machineVars, aliasVars,
                   simVars, twiceVars, detailVars, aggVars, shapeVars>>

NextShape == ShapeStart \/ ShapeMutate

SpecShape == InitShape /\ [][NextShape]_vars

\* Three reels, each of the length drawn for it, over the symbol table.
WellShaped(rs) ==
    /\ Len(rs) = 3
    /\ \A c \in 1..3 :
          /\ Len(rs[c]) = lengths[c]
          /\ lengths[c] \in 8..14
          /\ \A i \in 1..Len(rs[c]) : rs[c][i] \in SYMBOL_KEYS
    /\ Len(rs[1]) * Len(rs[2]) * Len(rs[3]) <= 14 * 14 * 14

reel_post_init(symbols) == IF Len(symbols) = 0 THEN "ValueError" ELSE ""

\* Mutant of slot_machine_post_init: "<" for "!=".
slot_machine_post_init_fewer(rs) == IF Len(rs) < 3 THEN "ValueError" ELSE ""

\* SlotMachine.__post_init__: if len(self.reels) != 3: raise ValueError.
slot_machine_post_init(rs) == IF Len(rs) # 3 THEN "ValueError" ELSE ""

\* The symbol lists handed to Reel(...): of 0..MaxReelLen symbols, the
\* symbols of a list all different up to length 5.
CtorLists ==
    {[i \in 1..n |-> (i + k) % 5] : n \in 0..MaxReelLen, k \in {0, 1}}

\* 0 to 4 of them are then handed to SlotMachine(...).
CtorInputs == UNION {[1..n -> CtorLists] : n \in 0..4}

InitMachine ==
    /\ mode = "machine"
    /\ pc = "start"
    /\ symbol_lists \in CtorInputs
    /\ spin_stops = None
    /\ ctor_raised = ""
    /\ EvalIdle
    /\ SearchIdle
    /\ RetryIdle
    /\ OtherIdle

\* Reel(symbols) for each list, in order.
ReelInit ==
    /\ mode = "machine" /\ pc = "start"
    /\ IF \E i \in DOMAIN symbol_lists : reel_post_init(symbol_lists[i]) # ""
       THEN /\ ctor_raised' = "ValueError"
            /\ pc' = "error"
            /\ UNCHANGED reels
       ELSE /\ reels' = symbol_lists
            /\ pc' = "reels"
            /\ UNCHANGED ctor_raised
    /\ UNCHANGED <<mode, otherVars, retryVars, searchVars, symbol_lists, spin_stops, grid,
                   bet_amount, payout_out, exact_out>>

\* SlotMachine(reels, bet_amount=1.0).
SlotMachineInit ==
    /\ mode = "machine" /\ pc = "reels"
    /\ IF slot_machine_post_init(reels) # ""
       THEN /\ ctor_raised' = "ValueError"
            /\ pc' = "error"
       ELSE /\ pc' = "machine"
            /\ UNCHANGED ctor_raised
    /\ UNCHANGED <<mode, otherVars, retryVars, searchVars, symbol_lists, spin_stops,
                   evalVars>>

\* machine.spin_grid(stops) for stops within the reels.
DoSpinGrid ==
    /\ mode = "machine" /\ pc = "machine"
    /\ \E st \in (0..(Len(reels[1]) - 1)) \X (0..(Len(reels[2]) - 1))
                   \X (0..(Len(reels[3]) - 1)) :
          /\ spin_stops' = st
          /\ grid' = SpinGrid(reels, st)
    /\ pc' = "spun"
    /\ UNCHANGED <<mode, otherVars, retryVars, searchVars, symbol_lists, ctor_raised,
                   bet_amount, payout_out, reels, exact_out>>

\* ExactEvaluator(machine).run() on the machine built.
DoMachineExact ==
    /\ mode = "machine" /\ pc = "machine"
    /\ exact_out' = ExactRun(reels, bet_amount)
    /\ pc' = "evaluated"
    /\ UNCHANGED <<mode, otherVars, retryVars, searchVars, machineVars, grid, bet_amount,
                   payout_out, reels>>

NextMachine ==
    \/ ReelInit
    \/ SlotMachineInit
    \/ DoSpinGrid
    \/ DoMachineExact

SpecMachine == InitMachine /\ [][NextMachine]_vars

(***************************************************************************)
(* Properties of the machine: construction, spin_grid, unknown symbols.    *)
(***************************************************************************)
\* C12: for reels of any lengths >= 1 and stops within them, spin_grid
\* returns a 3x3 grid with grid[r][c] = reel_c.symbols[(s_c + r) mod
\* length(reel_c)], and the reels are not modified.
C12_SpinGridCells ==
    (mode = "machine" /\ pc = "spun") =>
        /\ DOMAIN grid = 1..3
        /\ \A r \in 0..2 :
              /\ DOMAIN grid[r + 1] = 1..3
              /\ \A c \in 0..2 :
                    grid[r + 1][c + 1] =
                        reels[c + 1][((spin_stops[c + 1] + r)
                                         % Len(reels[c + 1])) + 1]
        /\ reels = symbol_lists

\* C12 witness: reels of lengths 1, 2 and 3 stopped at (0, 1, 2), the
\* windows of the second and third wrapping around.
C12_Witness ==
    /\ mode = "machine" /\ pc = "spun"
    /\ reels = << <<1>>, <<1, 2>>, <<2, 3, 4>> >>
    /\ spin_stops = <<0, 1, 2>>
    /\ grid = << <<1, 2, 4>>, <<1, 1, 2>>, <<1, 2, 3>> >>

\* C13: whenever a grid cell holds a key outside 0..4, scoring the grid
\* ends in an error, never in a payout value.
C13_UnknownKeyIsAnError ==
    (mode = "payout" /\ pc = "done"
       /\ \E r \in 0..2, c \in 0..2 : Cell(grid, r, c) \notin SYMBOL_KEYS) =>
        payout_out.err

\* C14: Reel(...) raises for a list of zero symbols and SlotMachine(...)
\* for a number of reels other than 3, both at construction; construction
\* succeeds for non-empty lists and exactly 3 reels; so an evaluator only
\* ever runs on exactly 3 non-empty reels.
C14_ConstructorsValidate ==
    mode = "machine" =>
        /\ pc \in {"reels", "machine", "spun", "evaluated"} =>
              /\ \A i \in DOMAIN symbol_lists : Len(symbol_lists[i]) >= 1
              /\ reels = symbol_lists
              /\ ctor_raised = ""
        /\ pc \in {"machine", "spun", "evaluated"} => Len(reels) = 3
        /\ pc = "error" =>
              /\ ctor_raised = "ValueError"
              /\ \/ \E i \in DOMAIN symbol_lists : Len(symbol_lists[i]) = 0
                 \/ Len(symbol_lists) # 3
        /\ pc = "evaluated" =>
              /\ ~exact_out.err
              /\ exact_out.spins = Len(reels[1]) * Len(reels[2]) * Len(reels[3])
              /\ exact_out.spins >= 1

\* C14 witness: four non-empty reels were built and SlotMachine refused
\* them.
C14_Witness ==
    /\ mode = "machine" /\ pc = "error"
    /\ Len(symbol_lists) = 4
    /\ \A i \in DOMAIN symbol_lists : Len(symbol_lists[i]) >= 1
    /\ reels = symbol_lists
    /\ ctor_raised = "ValueError"

(***************************************************************************)
(* Properties of the retry loops.                                          *)
(***************************************************************************)
\* The exact validation of the reels has |rtp - 0.95| <= 1e-6 and
\* win_rate >= 0.55.
Passes(rs) ==
    /\ WithinTol(exact_validation[rs].rtp)
    /\ 55 * exact_validation[rs].win_rate.den
         <= 100 * exact_validation[rs].win_rate.num

\* The retry loop of main() or post_search() is running or has finished.
InRetryLoop == mode \in {"cli", "server"} /\ pc \in {"loop", "done"}

\* C5: in main() and in post_search() the search runs at most 9 times
\* (1 + at most 8 retries); a search is rerun only when the exact validation
\* of the latest candidate fails the constraints, so the loop stops at the
\* first candidate that passes; and what is finally written or returned are
\* the reels of the last search run with the metrics of the exact
\* evaluation of exactly those reels (as the output rounds them).
C5_RetryLoop ==
    InRetryLoop =>
        /\ Len(runs) <= 9
        /\ Len(runs) = attempts + 1
        /\ cand = runs[Len(runs)].reels
        /\ \A i \in 1..(Len(runs) - 1) : ~Passes(runs[i].reels)
        /\ pc = "done" =>
             /\ Passes(cand) \/ Len(runs) = 9
             /\ validation = exact_validation[cand]
             /\ response.reels = runs[Len(runs)].reels
             /\ response.validation.spins = exact_validation[cand].spins
             /\ response.validation.total_bet = exact_validation[cand].total_bet
             /\ response.validation.total_return =
                  Rat(exact_validation[cand].total_return, 100)
             /\ \E places \in {4, 6} :
                  /\ response.validation.rtp =
                       round(exact_validation[cand].rtp, places)
                  /\ response.validation.win_rate =
                       round(exact_validation[cand].win_rate, places)

\* C5 witness: the loop has finished after three searches, the first two
\* candidates failing the validation and the third passing it.
C5_Witness ==
    /\ InRetryLoop /\ pc = "done"
    /\ Len(runs) = 3
    /\ ~Passes(runs[1].reels) /\ ~Passes(runs[2].reels)
    /\ Passes(runs[3].reels)
    /\ response.reels = runs[3].reels
    /\ response.validation.rtp = Rat(95, 100)

\* C6: every response of POST /search carries exact validation metrics
\* with |rtp - 0.95| <= 1e-6 and win_rate >= 0.55.
C6_EveryResponseMeetsConstraints ==
    (mode = "server" /\ pc = "done") =>
        /\ WithinTol(response.validation.rtp)
        /\ RatLeq(Rat(55, 100), response.validation.win_rate)

\* C7: on every retry the step budget is int(1.5 x the budget of the
\* attempt before it) and strictly larger than it, and the seed differs
\* from the seed of every earlier attempt (step budgets >= 1, which is what
\* POST /search accepts).
C7_RetryEscalates ==
    (mode \in {"cli", "server"} /\ req.steps >= 1) =>
        \A k \in 1..(Len(runs) - 1) :
            /\ 2 * runs[k + 1].max_steps <= 3 * runs[k].max_steps
            /\ 3 * runs[k].max_steps < 2 * runs[k + 1].max_steps + 2
            /\ runs[k + 1].max_steps > runs[k].max_steps
            /\ \A j \in 1..k : runs[k + 1].seed # runs[j].seed

(***************************************************************************)
(* Properties of the exact evaluator and of the payout.                    *)
(***************************************************************************)
\* The stop triples of the Cartesian product range(L0) x range(L1) x range(L2).
AllStops(rs) ==
    (0..(Len(rs[1]) - 1)) \X (0..(Len(rs[2]) - 1)) \X (0..(Len(rs[3]) - 1))

\* The payout of the grid the stops give.
StopPayout(rs, bet, stops) == Payout(bet, SpinGrid(rs, stops)).val

\* The sum of the payouts of a set of stop triples, taken in no fixed order.
RECURSIVE SumPayouts(_, _, _)
SumPayouts(rs, bet, S) ==
    IF S = {} THEN 0
    ELSE LET x == CHOOSE y \in S : TRUE
         IN  StopPayout(rs, bet, x) + SumPayouts(rs, bet, S \ {x})

OnlySymbol(rs, s) == \A c \in 1..3 : \A i \in DOMAIN rs[c] : rs[c][i] = s

\* C9: for three reels holding one and the same symbol s and bet 1, every
\* stop combination gives a grid on which all five patterns match, and the
\* evaluator reports win_rate = 1 and rtp = 9 * multiplier(s), with
\* spins = 1 when each reel has length 1.
C9_SingleSymbolReels ==
    (mode = "exact" /\ pc = "done" /\ bet_amount = 1) =>
        \A s \in SYMBOL_KEYS :
            OnlySymbol(reels, s) =>
                /\ \A x \in AllStops(reels) :
                     \A i \in DOMAIN winning_patterns :
                        PatternMatches(SpinGrid(reels, x), winning_patterns[i])
                /\ ~exact_out.err
                /\ exact_out.win_rate = Rat(1, 1)
                /\ exact_out.rtp = Rat(9 * Multiplier100[s], 100)
                /\ (\A c \in 1..3 : Len(reels[c]) = 1) => exact_out.spins = 1

\* C9 witness: reels [[2],[2],[2]] with bet 1 report spins 1, rtp 9.0 and
\* win_rate 1.0.
C9_Witness ==
    /\ mode = "exact" /\ pc = "done" /\ bet_amount = 1
    /\ reels = << <<2>>, <<2>>, <<2>> >>
    /\ exact_out.spins = 1
    /\ exact_out.rtp = Rat(9, 1)
    /\ exact_out.win_rate = Rat(1, 1)

\* Every cell of pattern p holds the symbol sym.
AllCells(g, p, sym) ==
    \A i \in DOMAIN p.coords : Cell(g, p.coords[i][1], p.coords[i][2]) = sym

\* What pattern p adds for the grid: bet x multiplier x weight for the
\* symbol all its cells hold, and nothing when they hold no one symbol.
PatternPay(bet, g, p) ==
    IF \E sym \in SYMBOL_KEYS : AllCells(g, p, sym)
    THEN bet * Multiplier100[CHOOSE sym \in SYMBOL_KEYS : AllCells(g, p, sym)] * p.weight
    ELSE 0

\* C10: for every grid over the symbols 0..4, payout(grid) is the sum over
\* each of the five patterns whose cells all hold one symbol of
\* bet_amount x multiplier(symbol) x weight: every match is added.
C10_PayoutSumsAllMatches ==
    (mode = "payout" /\ pc = "done"
       /\ \A r \in 0..2, c \in 0..2 : Cell(grid, r, c) \in SYMBOL_KEYS) =>
        /\ ~payout_out.err
        /\ payout_out.val =
             PatternPay(bet_amount, grid, winning_patterns[1])
               + PatternPay(bet_amount, grid, winning_patterns[2])
               + PatternPay(bet_amount, grid, winning_patterns[3])
               + PatternPay(bet_amount, grid, winning_patterns[4])
               + PatternPay(bet_amount, grid, winning_patterns[5])

\* C10 witness: a grid on which exactly two patterns match, both paid.
C10_Witness ==
    /\ mode = "payout" /\ pc = "done" /\ bet_amount = 2
    /\ \A r \in 0..2, c \in 0..2 : Cell(grid, r, c) \in SYMBOL_KEYS
    /\ Cardinality({i \in DOMAIN winning_patterns :
                      PatternMatches(grid, winning_patterns[i])}) = 2
    /\ payout_out.val = 2 * 2 * Multiplier100[Cell(grid, 1, 1)]

\* Some pattern has all its cells holding one value.
SomePatternMatches(g) ==
    \E i \in DOMAIN winning_patterns :
        \E sym \in CellValues : AllCells(g, winning_patterns[i], sym)

RECURSIVE MatchedWeightFrom(_, _)
MatchedWeightFrom(g, idx) ==
    IF idx > Len(winning_patterns) THEN 0
    ELSE (IF PatternMatches(g, winning_patterns[idx])
          THEN winning_patterns[idx].weight ELSE 0)
         + MatchedWeightFrom(g, idx + 1)

MatchedWeight(g) == MatchedWeightFrom(g, 1)

\* C25: every pattern contains the centre cell, so a matching pattern
\* matches on grid[1][1]; four matching corner blocks make the full block
\* match; the weights of the matching patterns sum to k in {0, 1, 2, 3, 9},
\* and payout() returns bet_amount x multiplier(grid[1][1]) x k (nothing
\* when k = 0, and the KeyError of the symbol table when k > 0 and the
\* centre holds no symbol of the table).
C25_CentreCellDecides ==
    (mode = "payout" /\ pc = "done") =>
        LET centre == Cell(grid, 1, 1)
            k == MatchedWeight(grid)
        IN  /\ \A i \in DOMAIN winning_patterns :
                  /\ \E j \in DOMAIN winning_patterns[i].coords :
                        winning_patterns[i].coords[j] = <<1, 1>>
                  /\ PatternMatches(grid, winning_patterns[i]) =>
                        AllCells(grid, winning_patterns[i], centre)
            /\ (\A i \in 1..4 : PatternMatches(grid, winning_patterns[i])) =>
                  PatternMatches(grid, winning_patterns[5])
            /\ k \in {0, 1, 2, 3, 9}
            /\ IF k = 0 THEN ~payout_out.err /\ payout_out.val = 0
               ELSE IF SymbolKnown(centre)
               THEN /\ ~payout_out.err
                    /\ payout_out.val = bet_amount * Multiplier100[centre] * k
               ELSE payout_out.err

\* C25 witness: three corner blocks match and the fourth does not; the
\* payout is three times the bet times the centre symbol's multiplier.
C25_Witness ==
    /\ mode = "payout" /\ pc = "done" /\ bet_amount = 2
    /\ MatchedWeight(grid) = 3
    /\ ~PatternMatches(grid, winning_patterns[4])
    /\ Cell(grid, 1, 1) = 3
    /\ payout_out = [err |-> FALSE, val |-> 1800]

=============================================================================
